---- MODULE Spec2Model ----
(***************************************************************************)
(* A model of the aks-periscope node agent: the Event Trace Collector      *)
(* (pkg/collector/gadgets), the DNS and TCP trace collectors, and the      *)
(* collection pass that drives the collectors.                             *)
(*                                                                         *)
(* Go values are modelled as follows.  A map[string]string is a function   *)
(* whose DOMAIN is its key set.  Maps are reference values: `heap` maps an  *)
(* object id to the map's contents and a variable holding a map holds the   *)
(* id.  A sync.Map is a function whose DOMAIN is the set of stored keys;    *)
(* each of its methods is one atomic step.                                  *)
(***************************************************************************)
EXTENDS Integers, Sequences, FiniteSets, TLC

VARIABLES
    data,       \* IGTraceContainerCollector.data: the sync.Map, trace name -> map id
    heap,       \* the map[string]string objects, id -> contents
    nextId,     \* the next object id an allocation returns
    now,        \* the wall clock time.Now() reads, in nanoseconds
    log,        \* history: the PublishEvent calls that have returned, in order
    got,        \* the outcome of the last GetTracerData call
    pc,         \* per probe callback context: its position in PublishEvent
    frame,      \* per probe callback context: the locals of its PublishEvent call
    crashed,    \* the Go runtime has thrown "concurrent map writes"
    self,       \* the trace collector at work: its GetName()
    cpc,        \* its position in Collect
    fault,      \* the step of this Collect the environment makes fail
    defers,     \* the deferred calls of this Collect, oldest first
    acquired,   \* history: the resources this Collect acquired, in order
    closed,     \* history: the resources this Collect closed, in order
    attached,   \* the registry adapters, probes and connections open on the node
    result,     \* the error the last Collect returned
    waited,     \* history: how often this Collect invoked the waiter
    runs,       \* history: the Collect calls begun
    phases,     \* history: for each entry of log, where Collect was at the time
    runtimeInfo,  \* utils.RuntimeInfo: what GetRuntimeInfo read from the environment
    phase,        \* the orchestrator's position in the pass
    status,       \* per collector: how far the orchestrator has taken it
    calls,        \* history, per collector: the calls made on it
    checkErr,     \* per collector: the error its CheckSupported returned
    errs,         \* the combined result of the pass: the Collect errors
    sinks,        \* per trace collector: its igContainerCollector
    perfData,     \* SystemPerfCollector.data
    uploads,      \* history: the items uploaded to the blob store
    exportErrs,   \* history: the errors the Export calls returned
    panicked,     \* a panic has ended the process
    xpc,              \* the exporter: its position in Export or ExportReader
    xcall,            \* the exporter: the arguments and locals of the call at work
    blobs,            \* the blob store: blob name -> content
    containerExists,  \* the blob store: the destination container exists
    net,              \* history: the requests sent to the blob store, in order
    xlog,             \* history: the Export and ExportReader calls that returned
    environ,          \* the process environment: variable -> set or not, value
    GOOS,             \* runtime.GOOS
    loaded,           \* the outcome of the GetRuntimeInfo call
    rpc,          \* the remote trace collector: its position in collect / runTraceCommandOnPod
    gpc,          \* the streaming goroutine of that call: its position
    rcall,        \* the gadget name of the call, what the environment makes fail, the error returned
    rdata,        \* InspektorGadgetTraceCollector.data
    traces,       \* the Trace resources that exist in the cluster, by name
    rlog,         \* history: what the call at work has done, in order
    rruns,        \* history: the collect calls begun
    osIdentifier,   \* InspektorGadgetTraceCollector.osIdentifier
    cluster,        \* what the cluster answers to a listing of its CRDs
    supportErr,     \* the error the remote trace collector's CheckSupported returned
    queries,        \* history: the listings of CRDs asked of the cluster
    registry,       \* the container collection of the InitContainerCollection call at work
    fixtureInstance,  \* var fixtureInstance *ClusterFixture
    fixtureError,     \* var fixtureError error
    once,             \* var once sync.Once: new, running its function, or done
    fpc,              \* per goroutine: its position in GetClusterFixture
    fsynced,          \* per goroutine: it has been through once.Do since the build ended
    fcalls,           \* history, per goroutine: the GetClusterFixture calls it has begun
    build,            \* history: the runs of buildInstance and what the last one returned
    returned          \* history: the pairs GetClusterFixture calls have returned

sinkVars == <<data, heap, nextId, now, log, got, pc, frame, crashed>>

collectVars == <<self, cpc, fault, defers, acquired, closed, attached, result,
                 waited, runs, phases>>

passVars == <<runtimeInfo, phase, status, calls, checkErr, errs, sinks, perfData,
              uploads, exportErrs, panicked>>

exportVars == <<xpc, xcall, blobs, containerExists, net, xlog>>

envVars == <<environ, GOOS, loaded>>

remoteVars == <<rpc, gpc, rcall, rdata, traces, rlog, rruns>>

supportVars == <<osIdentifier, cluster, supportErr, queries>>

fixtureVars == <<fixtureInstance, fixtureError, once, fpc, fsynced, fcalls, build, returned>>

auxVars == <<supportVars, registry, fixtureVars>>

vars == <<sinkVars, collectVars, passVars, exportVars, envVars, remoteVars, auxVars>>

-----------------------------------------------------------------------------
(* Bounds of the model. *)

\* The goroutines of the test process that call GetClusterFixture, and the
\* most calls each makes.
NumGoroutines == 2
MaxFixtureCalls == 2

\* The most container events a container collection reports to its
\* subscriber.
MaxContainerEvents == 1

\* The most custom resource definitions a cluster lists.
MaxCRDs == 2

MaxTime == 2        \* the clock runs from 1 to MaxTime
MaxPublish == 3     \* PublishEvent calls per behaviour
NumProbes == 2      \* probe callback contexts that run concurrently
MaxRuns == 2        \* Collect calls on one collector
MaxEvents == 1      \* events a probe reports during one Collect of a pass
MaxExports == 2     \* Export and ExportReader calls on one exporter
MaxCollects == 2    \* collect calls on one remote trace collector

-----------------------------------------------------------------------------
(* Inputs. *)

NilRef == 0

NoContainer == [Namespace |-> "", Podname |-> "", Name |-> "", Pid |-> 0, HostNetwork |-> FALSE]

Container(ns, pod, name, pid) ==
    [Namespace |-> ns, Podname |-> pod, Name |-> name, Pid |-> pid, HostNetwork |-> FALSE]

\* One container and its four neighbours, each differing from it in exactly
\* one part of the identity.
Containers ==
    { Container("ns1", "pod1", "c1", 1),
      Container("ns2", "pod1", "c1", 1),
      Container("ns1", "pod2", "c1", 1),
      Container("ns1", "pod1", "c2", 1),
      Container("ns1", "pod1", "c1", 2) }

\* A *containercollection.Container argument: nil or a container.
ContainerArgs == Containers \cup {NoContainer}

Identity(c) == <<c.Namespace, c.Podname, c.Name, c.Pid>>

TraceNames == {"ig-dnstrace", "ig-tcptrace"}

EventDetails == {"e1", "e2"}

Probes == 1 .. NumProbes

\* The registered collectors.
Collectors == TraceNames \cup {"systemperf"}

\* runtimeInfo.HostNodeName, from HOST_NODE_NAME.
HostNodeName == "node1"

\* runtimeInfo.CollectorList, from COLLECTOR_LIST.
CollectorLists == {<<>>, <<"dns">>, <<"connectedCluster">>, <<"dns", "connectedCluster">>}

\* What GetRuntimeInfo returns: HOST_NODE_NAME is set, the other variables may
\* be empty.
RuntimeInfos ==
    [HostNodeName : {HostNodeName},
     CollectorList : CollectorLists,
     StorageAccountName : {"", "account"},
     StorageSasKey : {"?sas"},
     StorageContainerName : {"container"},
     StorageSasKeyType : {""}]

\* The exporter's creationTime, character by character.
CreationTime == <<"T", "1", ":", "2", ":", "3">>

-----------------------------------------------------------------------------
(* pkg/collector/gadgets: the Event Trace Collector. *)

\* time.Now().Format(time.RFC3339Nano): a rendering of the instant that keeps
\* every nanosecond digit, so two instants render alike only when equal.
FormatRFC3339Nano(t) == ToString(t)

info(container, t) ==
    IF container = NoContainer
    THEN FormatRFC3339Nano(t)
    ELSE container.Namespace \o " /namespaces/" \o container.Podname \o "/pods/"
         \o container.Name \o "/containers/" \o FormatRFC3339Nano(t) \o " "

\* The state of one IGTraceContainerCollector and of the maps it can reach.
Sink == [data |-> data, heap |-> heap, nextId |-> nextId]

\* map[string]string{k: v}: a new map object.
NewMap(s, k, v) ==
    [sink |-> [s EXCEPT !.heap = (s.nextId :> (k :> v)) @@ s.heap,
                        !.nextId = s.nextId + 1],
     ref  |-> s.nextId]

\* A LoadOrStore that stores the value whatever the map holds.
LoadOrStoreReplaces(s, key, value) ==
    [sink |-> [s EXCEPT !.data = (key :> value) @@ s.data],
     actual |-> value, loaded |-> FALSE]

\* sync.Map.LoadOrStore
LoadOrStore(s, key, value) ==
    IF key \in DOMAIN s.data
    THEN [sink |-> s, actual |-> s.data[key], loaded |-> TRUE]
    ELSE [sink |-> [s EXCEPT !.data = (key :> value) @@ s.data],
          actual |-> value, loaded |-> FALSE]

\* A Store that leaves the map with the one key.
StoreAlone(s, key, value) == [s EXCEPT !.data = (key :> value)]

\* sync.Map.Store
Store(s, key, value) == [s EXCEPT !.data = (key :> value) @@ s.data]

\* sync.Map.Load
Load(s, key) ==
    IF key \in DOMAIN s.data
    THEN [value |-> s.data[key], ok |-> TRUE]
    ELSE [value |-> NilRef, ok |-> FALSE]

\* A map assignment that keeps the entry a key already has.
MapAssignKeepsFirst(s, ref, k, v) == [s EXCEPT !.heap[ref] = s.heap[ref] @@ (k :> v)]

\* m[k] = v on the map object ref.
MapAssign(s, ref, k, v) == [s EXCEPT !.heap[ref] = (k :> v) @@ s.heap[ref]]

\* Map objects no variable refers to any more are dropped (garbage collection).
Reachable(s, roots) == [s EXCEPT !.heap = [r \in (DOMAIN s.heap) \cap roots |-> s.heap[r]]]

SinkRoots(s) == {s.data[k] : k \in DOMAIN s.data}

\* PublishEvent run by one context alone; t1 and t2 are what the clock reads
\* at the first and at the second call of info.
PublishEvent(s, traceName, container, eventDetails, t1, t2) ==
    LET m == NewMap(s, info(container, t1), eventDetails)
        r == LoadOrStore(m.sink, traceName, m.ref)
    IN  IF r.loaded
        THEN Store(MapAssign(r.sink, r.actual, info(container, t2), eventDetails),
                   traceName, r.actual)
        ELSE r.sink

\* The derived key under which that call leaves its event.
PublishedKey(s, traceName, container, t1, t2) ==
    IF traceName \in DOMAIN s.data THEN info(container, t2) ELSE info(container, t1)

\* A GetTracerData whose type assertion is the checked form: no panic, and a
\* nil map for an absent key.
GetTracerDataSilent(s, tracerName) ==
    [panicked |-> FALSE, events |-> Load(s, tracerName).value]

\* GetTracerData: the unchecked type assertion events.(map[string]string)
\* panics on the nil interface value Load returns for an absent key.
GetTracerData(s, tracerName) ==
    LET events == Load(s, tracerName).value
    IN  IF events = NilRef
        THEN [panicked |-> TRUE, events |-> NilRef]
        ELSE [panicked |-> FALSE, events |-> events]

-----------------------------------------------------------------------------
(* The sink's state after construction (NewIGTraceContainerCollector), and  *)
(* what the specifications below record about the calls.                    *)

NoResult == [tracerName |-> "", panicked |-> FALSE, events |-> NilRef, at |-> 0]

IdleFrame == [traceName |-> "", container |-> NoContainer, eventDetails |-> "",
              ref |-> NilRef, events |-> NilRef, key |-> "", time |-> 0, seen |-> <<>>,
              fresh |-> FALSE]

InitSink ==
    /\ data = <<>>
    /\ heap = <<>>
    /\ nextId = 1
    /\ now = 1
    /\ log = <<>>
    /\ got = NoResult
    /\ pc = [p \in Probes |-> "idle"]
    /\ frame = [p \in Probes |-> IdleFrame]
    /\ crashed = FALSE

\* A trace collector after construction (NewInspektorGadgetDNSTraceCollector,
\* NewInspektorGadgetTCPTraceCollector): not yet in Collect, nothing attached.
InitCollect ==
    /\ cpc = "idle"
    /\ fault = "none"
    /\ defers = <<>>
    /\ acquired = <<>>
    /\ closed = <<>>
    /\ attached = {}
    /\ result = "nil"
    /\ waited = 0
    /\ runs = 0
    /\ phases = <<>>

\* A new IGTraceContainerCollector (NewIGTraceContainerCollector).
EmptySink == [data |-> <<>>, heap |-> <<>>, nextId |-> 1]

\* The orchestrator before the pass: every collector constructed and
\* registered, nothing called yet.
InitPass ==
    /\ phase = "collecting"
    /\ status = [c \in Collectors |-> "registered"]
    /\ calls = [c \in Collectors |->
                 [CheckSupported |-> 0, Collect |-> 0, GetData |-> 0, Export |-> 0,
                  after |-> 0]]
    /\ checkErr = [c \in Collectors |-> "nil"]
    /\ errs = <<>>
    /\ sinks = [tn \in TraceNames |-> EmptySink]
    /\ perfData = <<>>
    /\ uploads = {}
    /\ exportErrs = {}
    /\ panicked = FALSE

\* No call in progress.
NoCall == [op |-> "", items |-> <<>>, todo |-> {}, err |-> "nil", start |-> 0]

\* A new exporter (NewAzureBlobExporter) and an empty blob store without the
\* destination container.
InitExport ==
    /\ xpc = "idle"
    /\ xcall = NoCall
    /\ blobs = <<>>
    /\ containerExists = FALSE
    /\ net = <<>>
    /\ xlog = <<>>

\* An environment variable that is not set, and one set to a value (its
\* characters).
Unset == [set |-> FALSE, value |-> <<>>]

SetTo(chars) == [set |-> TRUE, value |-> chars]

\* The zero RuntimeInfo.
ZeroRuntimeInfo ==
    [OSIdentifier |-> "", HostNodeName |-> "", CollectorList |-> <<>>,
     KubernetesObjects |-> <<>>, NodeLogs |-> <<>>, ContainerLogsNamespaces |-> <<>>,
     StorageAccountName |-> "", StorageSasKey |-> "", StorageContainerName |-> "",
     StorageSasKeyType |-> ""]

\* GetRuntimeInfo has not been called.
NotLoaded == [called |-> FALSE, isNil |-> TRUE, info |-> ZeroRuntimeInfo, err |-> "nil"]

\* The environment of a process in which HOST_NODE_NAME alone is set.
InitEnv ==
    /\ environ = [HOST_NODE_NAME |-> SetTo(<<"n">>), COLLECTOR_LIST |-> Unset,
                  DIAGNOSTIC_KUBEOBJECTS_LIST |-> Unset,
                  DIAGNOSTIC_NODELOGS_LIST_LINUX |-> Unset,
                  DIAGNOSTIC_NODELOGS_LIST_WINDOWS |-> Unset,
                  DIAGNOSTIC_CONTAINERLOGS_LIST |-> Unset,
                  AZURE_BLOB_ACCOUNT_NAME |-> Unset, AZURE_BLOB_SAS_KEY |-> Unset,
                  AZURE_BLOB_CONTAINER_NAME |-> Unset, AZURE_STORAGE_SAS_KEY_TYPE |-> Unset]
    /\ GOOS = "linux"
    /\ loaded = NotLoaded

\* No collect call in progress.
NoRemoteCall == [gadgetName |-> "", fault |-> "none", err |-> "nil"]

\* A remote trace collector as constructed, no Trace resource in the cluster.
InitRemote ==
    /\ rpc = "idle"
    /\ gpc = "none"
    /\ rcall = NoRemoteCall
    /\ rdata = <<>>
    /\ traces = {}
    /\ rlog = <<>>
    /\ rruns = 0

\* A remote trace collector on a Linux node, its CheckSupported not called.
InitSupport ==
    /\ osIdentifier = "linux"
    /\ cluster = [err |-> FALSE, items |-> <<>>]
    /\ supportErr = "notCalled"
    /\ queries = 0

\* InitContainerCollection has not been called.
NoRegistry ==
    [memlock |-> "notAsked", initializeCalled |-> FALSE, initialized |-> FALSE,
     subscribed |-> FALSE, collection |-> FALSE, err |-> "nil", events |-> 0,
     closed |-> FALSE]

InitRegistry == registry = NoRegistry

Goroutines == 1 .. NumGoroutines

\* No buildInstance has run.
NotBuilt == [runs |-> 0, fixture |-> NilRef, err |-> "nil"]

\* The package variables of the test fixture as the process starts (part_003
\* lines 26, 48-49).
InitFixture ==
    /\ fixtureInstance = NilRef
    /\ fixtureError = "nil"
    /\ once = "new"
    /\ fpc = [g \in Goroutines |-> "idle"]
    /\ fsynced = [g \in Goroutines |-> FALSE]
    /\ fcalls = [g \in Goroutines |-> 0]
    /\ build = NotBuilt
    /\ returned = {}

InitAux == InitSupport /\ InitRegistry /\ InitFixture

\* The sink specifications leave the collector as constructed and run no pass.
InitOwner ==
    /\ InitSink
    /\ InitCollect
    /\ InitPass
    /\ InitExport
    /\ InitRemote
    /\ InitAux
    /\ InitEnv
    /\ self = "ig-dnstrace"
    /\ runtimeInfo \in {ri \in RuntimeInfos : ri.CollectorList = <<>> /\ ri.StorageAccountName = ""}

Size(s, traceName) ==
    IF traceName \in DOMAIN s.data THEN Cardinality(DOMAIN s.heap[s.data[traceName]]) ELSE 0

HasKey(s, traceName, k) ==
    traceName \in DOMAIN s.data /\ k \in DOMAIN s.heap[s.data[traceName]]

Bucket(s, traceName) == s.heap[s.data[traceName]]

\* The history entry of a PublishEvent call that took the sink from s to
\* after and left its event under key k, derived from the clock reading t.
LogEntry(s, after, traceName, container, eventDetails, k, t) ==
    [traceName |-> traceName, container |-> container, eventDetails |-> eventDetails,
     key |-> k, time |-> t,
     created |-> traceName \notin DOMAIN s.data,
     hadKey |-> HasKey(s, traceName, k),
     sizeBefore |-> Size(s, traceName),
     sizeAfter |-> Size(after, traceName)]

-----------------------------------------------------------------------------
(* SpecSeq: one context publishes events and reads buckets, call after call. *)

\* The containers the sequential callers pass: none, or one container.
SeqContainerArgs == {NoContainer, Container("ns1", "pod1", "c1", 1)}

SeqPublishEvent(traceName, container, eventDetails) ==
    /\ Len(log) < MaxPublish
    /\ \E t2 \in now .. MaxTime :
         LET s == PublishEvent(Sink, traceName, container, eventDetails, now, t2)
             after == Reachable(s, SinkRoots(s))
             t == IF traceName \in DOMAIN data THEN t2 ELSE now
             k == PublishedKey(Sink, traceName, container, now, t2)
         IN  /\ data' = after.data
             /\ heap' = after.heap
             /\ nextId' = after.nextId
             /\ now' = t
             /\ log' = Append(log, LogEntry(Sink, after, traceName, container,
                                            eventDetails, k, t))
    /\ UNCHANGED <<got, pc, frame, crashed>>

SeqGetTracerData(tracerName) ==
    /\ got' = [tracerName |-> tracerName, at |-> Len(log)] @@ GetTracerData(Sink, tracerName)
    /\ UNCHANGED <<data, heap, nextId, now, log, pc, frame, crashed>>

Tick ==
    /\ now < MaxTime
    /\ now' = now + 1
    /\ UNCHANGED <<data, heap, nextId, log, got, pc, frame, crashed>>

NextSeq ==
    \/ \E tn \in TraceNames, c \in SeqContainerArgs, e \in EventDetails :
         SeqPublishEvent(tn, c, e) /\ UNCHANGED <<collectVars, passVars, exportVars, envVars, remoteVars, auxVars>>
    \/ \E tn \in TraceNames : SeqGetTracerData(tn) /\ UNCHANGED <<collectVars, passVars, exportVars, envVars, remoteVars, auxVars>>
    \/ Tick /\ UNCHANGED <<collectVars, passVars, exportVars, envVars, remoteVars, auxVars>>

SpecSeq == InitOwner /\ [][NextSeq]_vars

-----------------------------------------------------------------------------
(* SpecKeys: two events are published, one after the other, for any two     *)
(* containers.                                                              *)

KeysPublishEvent(traceName, container, eventDetails) ==
    /\ Len(log) < 2
    /\ SeqPublishEvent(traceName, container, eventDetails)

NextKeys ==
    \/ \E tn \in TraceNames, c \in ContainerArgs, e \in EventDetails :
         KeysPublishEvent(tn, c, e) /\ UNCHANGED <<collectVars, passVars, exportVars, envVars, remoteVars, auxVars>>
    \/ Tick /\ UNCHANGED <<collectVars, passVars, exportVars, envVars, remoteVars, auxVars>>

SpecKeys == InitOwner /\ [][NextKeys]_vars

\* C8: two events published for the same trace name with two distinct
\* containers (differing in namespace, pod, container name or process id)
\* are two distinct entries of the bucket, whatever their timestamps.
C8_DistinctContainersDistinctEntries ==
    \A i, j \in DOMAIN log :
        ( /\ i < j
          /\ log[i].traceName = log[j].traceName
          /\ log[i].container # NoContainer
          /\ log[j].container # NoContainer
          /\ Identity(log[i].container) # Identity(log[j].container) )
        => /\ log[i].key # log[j].key
           /\ HasKey(Sink, log[i].traceName, log[i].key)
           /\ HasKey(Sink, log[j].traceName, log[j].key)
           /\ Size(Sink, log[i].traceName) >= 2

-----------------------------------------------------------------------------
(* Claims checked under SpecSeq. *)

LastPair == Len(log) >= 2
Later == log[Len(log)]
Earlier == log[Len(log) - 1]

\* The last two calls published for the same trace name and the same
\* container (or both for none) and derived their keys from the same instant.
SamePair ==
    /\ LastPair
    /\ Earlier.traceName = Later.traceName
    /\ Earlier.container = Later.container
    /\ Earlier.time = Later.time

C9_WitnessCreated ==
    /\ SamePair
    /\ Earlier.eventDetails # Later.eventDetails
    /\ Earlier.created

PublishedBefore(tracerName, n) ==
    \E i \in 1 .. n : log[i].traceName = tracerName

\* C10: GetTracerData panics exactly when no event was published for the
\* trace name before the call, and otherwise returns that name's bucket (the
\* very map the sink holds, never an empty or nil one).
C10_GetTracerDataFailsFast ==
    got.tracerName # "" =>
        /\ got.panicked <=> ~PublishedBefore(got.tracerName, got.at)
        /\ ~got.panicked =>
             /\ got.tracerName \in DOMAIN data
             /\ got.events = data[got.tracerName]
             /\ got.events \in DOMAIN heap
             /\ DOMAIN heap[got.events] # {}

\* C10's cases: a call for a name never published while another name has a
\* bucket, and a call that returned a bucket.
C10_Witness ==
    /\ got.tracerName # ""
    /\ got.panicked
    /\ DOMAIN data # {}

C10_WitnessBucket ==
    /\ got.tracerName # ""
    /\ ~got.panicked
    /\ Cardinality(DOMAIN heap[got.events]) >= 2

\* The bucket of a trace name in a sync.Map d over the map objects h: its
\* entries, none when the name has no bucket.
BucketOf(d, h, traceName) == IF traceName \in DOMAIN d THEN h[d[traceName]] ELSE <<>>

\* A step is a PublishEvent call that returns.
Publishes == Len(log') = Len(log) + 1

\* C34: a PublishEvent(traceName, ...) call leaves the bucket of every other
\* trace name as it was, and in the bucket of traceName adds or overwrites
\* the one key of the call and removes nothing; no other call changes a
\* bucket, GetTracerData included, so that the key set of a bucket only
\* grows over a sequence of calls on one collector.
C34_PublishChangesOneKeyOfOneBucket ==
    [][\A tn \in TraceNames :
         LET before == BucketOf(data, heap, tn)
             after == BucketOf(data', heap', tn)
             e == log'[Len(log')]
         IN  /\ tn \in DOMAIN data => tn \in DOMAIN data'
             /\ DOMAIN before \subseteq DOMAIN after
             /\ ~Publishes => (after = before /\ (tn \in DOMAIN data' => tn \in DOMAIN data))
             /\ (Publishes /\ e.traceName # tn) =>
                   (after = before /\ (tn \in DOMAIN data' => tn \in DOMAIN data))
             /\ (Publishes /\ e.traceName = tn) =>
                   /\ tn \in DOMAIN data'
                   /\ DOMAIN after = DOMAIN before \cup {e.key}
                   /\ after[e.key] = e.eventDetails
                   /\ \A k \in DOMAIN before \ {e.key} : after[k] = before[k]]_vars

\* C34's case: both trace names have a bucket, the bucket of one holds two
\* keys, and a GetTracerData of that name has been answered before the
\* latest event was published to it.
C34_Witness ==
    /\ DOMAIN data = TraceNames
    /\ \E tn \in TraceNames :
          /\ Cardinality(DOMAIN BucketOf(data, heap, tn)) >= 2
          /\ got.tracerName = tn
          /\ ~got.panicked
          /\ got.at < Len(log)
          /\ log[Len(log)].traceName = tn

\* C34's other case: a call overwrote the key it found in the bucket.
C34_WitnessOverwrite ==
    \E i \in DOMAIN log : log[i].hadKey /\ log[i].sizeAfter = log[i].sizeBefore

-----------------------------------------------------------------------------
(* SpecSink: probe callback contexts call PublishEvent concurrently.  Each   *)
(* sync.Map method is one step.  The assignment to the inner map is the Go  *)
(* runtime's mapassign on a plain map: it takes no lock, so it is a step    *)
(* that begins and a step that ends, and two of them on one map are a data  *)
(* race whose outcomes are all kept: the runtime notices and throws         *)
(* "concurrent map writes", both entries land, or the map is written back   *)
(* as the writer saw it when it began and an entry written since is lost.   *)

\* The history entry of a call, with whether the name had no bucket yet when
\* the call evaluated the arguments of LoadOrStore.
RacedEntry(f, entry) == entry @@ [fresh |-> f.fresh]

Started == Len(log) + Cardinality({p \in Probes : pc[p] # "idle"})

\* Line 40, the arguments of LoadOrStore: info reads the clock and the map
\* literal allocates.
CallPublishEvent(p, traceName, container, eventDetails) ==
    /\ ~crashed
    /\ pc[p] = "idle"
    /\ Started < MaxPublish
    /\ LET k == info(container, now)
           m == NewMap(Sink, k, eventDetails)
       IN  /\ heap' = m.sink.heap
           /\ nextId' = m.sink.nextId
           /\ frame' = [frame EXCEPT ![p] =
                  [IdleFrame EXCEPT !.traceName = traceName, !.container = container,
                                    !.eventDetails = eventDetails, !.ref = m.ref,
                                    !.key = k, !.time = now,
                                    !.fresh = traceName \notin DOMAIN data]]
    /\ pc' = [pc EXCEPT ![p] = "loadOrStore"]
    /\ UNCHANGED <<data, now, log, got, crashed>>

\* Line 40, LoadOrStore, and line 41: the call returns when the name was new.
DoLoadOrStore(p) ==
    /\ ~crashed
    /\ pc[p] = "loadOrStore"
    /\ LET f == frame[p]
           r == LoadOrStore(Sink, f.traceName, f.ref)
       IN  IF r.loaded
           THEN /\ data' = data
                /\ heap' = Reachable(r.sink, (DOMAIN heap) \ {f.ref}).heap
                /\ frame' = [frame EXCEPT ![p].events = r.actual, ![p].ref = NilRef]
                /\ pc' = [pc EXCEPT ![p] = "assign"]
                /\ log' = log
           ELSE /\ data' = r.sink.data
                /\ heap' = heap
                /\ log' = Append(log, RacedEntry(f, LogEntry(Sink, r.sink, f.traceName,
                                      f.container, f.eventDetails, f.key, f.time)))
                /\ frame' = [frame EXCEPT ![p] = IdleFrame]
                /\ pc' = [pc EXCEPT ![p] = "idle"]
    /\ UNCHANGED <<nextId, now, got, crashed>>

Assigning(ref) == {q \in Probes : pc[q] = "assigning" /\ frame[q].events = ref}

\* Line 43: info reads the clock again and the assignment to the loaded map
\* begins.  The runtime may notice a writer already at work on that map.
MapAssignBegin(p) ==
    /\ ~crashed
    /\ pc[p] = "assign"
    /\ frame' = [frame EXCEPT ![p].key = info(frame[p].container, now),
                              ![p].time = now,
                              ![p].seen = heap[frame[p].events]]
    /\ pc' = [pc EXCEPT ![p] = "assigning"]
    /\ \/ crashed' = FALSE
       \/ /\ Assigning(frame[p].events) # {}
          /\ crashed' = TRUE
    /\ UNCHANGED <<data, heap, nextId, now, log, got>>

\* Line 43: the assignment ends.
MapAssignEnd(p) ==
    /\ ~crashed
    /\ pc[p] = "assigning"
    /\ LET f == frame[p]
       IN  \E base \in {heap[f.events], f.seen} :
             heap' = [heap EXCEPT ![f.events] = (f.key :> f.eventDetails) @@ base]
    /\ pc' = [pc EXCEPT ![p] = "store"]
    /\ UNCHANGED <<data, nextId, now, log, got, frame, crashed>>

\* Line 44: Store puts the loaded map back under the name; the call returns.
DoStore(p) ==
    /\ ~crashed
    /\ pc[p] = "store"
    /\ LET f == frame[p]
           after == Store(Sink, f.traceName, f.events)
           before == [Sink EXCEPT !.heap[f.events] = f.seen]
       IN  /\ data' = after.data
           /\ log' = Append(log, RacedEntry(f, LogEntry(before, after, f.traceName,
                                  f.container, f.eventDetails, f.key, f.time)))
    /\ frame' = [frame EXCEPT ![p] = IdleFrame]
    /\ pc' = [pc EXCEPT ![p] = "idle"]
    /\ UNCHANGED <<heap, nextId, now, got, crashed>>

SinkTick ==
    /\ ~crashed
    /\ Tick

NextSink ==
    \/ \E p \in Probes, tn \in TraceNames, c \in SeqContainerArgs, e \in EventDetails :
         CallPublishEvent(p, tn, c, e) /\ UNCHANGED <<collectVars, passVars, exportVars, envVars, remoteVars, auxVars>>
    \/ \E p \in Probes : DoLoadOrStore(p) /\ UNCHANGED <<collectVars, passVars, exportVars, envVars, remoteVars, auxVars>>
    \/ \E p \in Probes : MapAssignBegin(p) /\ UNCHANGED <<collectVars, passVars, exportVars, envVars, remoteVars, auxVars>>
    \/ \E p \in Probes : MapAssignEnd(p) /\ UNCHANGED <<collectVars, passVars, exportVars, envVars, remoteVars, auxVars>>
    \/ \E p \in Probes : DoStore(p) /\ UNCHANGED <<collectVars, passVars, exportVars, envVars, remoteVars, auxVars>>
    \/ SinkTick /\ UNCHANGED <<collectVars, passVars, exportVars, envVars, remoteVars, auxVars>>

SpecSink == InitOwner /\ [][NextSink]_vars

UniqueKey(i) ==
    \A j \in DOMAIN log :
        (j # i /\ log[j].traceName = log[i].traceName) => log[j].key # log[i].key

\* C1: under any interleaving of concurrent PublishEvent calls the sink is
\* safe: no two calls are inside the assignment to the same bucket's inner
\* map at once, the runtime never aborts the process for it, and once every
\* call has returned each published event whose key is unique is in its
\* bucket.
C1_SinkSafeUnderConcurrentWriters ==
    /\ ~crashed
    /\ \A p, q \in Probes :
         (p # q /\ pc[p] = "assigning" /\ pc[q] = "assigning")
         => frame[p].events # frame[q].events
    /\ (\A p \in Probes : pc[p] = "idle") =>
         \A i \in DOMAIN log :
             UniqueKey(i) =>
                 /\ HasKey(Sink, log[i].traceName, log[i].key)
                 /\ Bucket(Sink, log[i].traceName)[log[i].key] = log[i].eventDetails

\* What the race costs: every call has returned and a uniquely keyed event
\* is missing from its bucket.
C1_LostUpdate ==
    /\ \A p \in Probes : pc[p] = "idle"
    /\ \E i \in DOMAIN log :
         UniqueKey(i) /\ ~HasKey(Sink, log[i].traceName, log[i].key)

\* The calls that have returned and published under the name.
EntriesOf(traceName) == {i \in DOMAIN log : log[i].traceName = traceName}

\* Calls i and j raced for the first event of a name: both evaluated the
\* arguments of LoadOrStore while the name had no bucket, i created the
\* bucket and j found it.
RacedForFirst(i, j) ==
    /\ i # j
    /\ log[i].traceName = log[j].traceName
    /\ log[i].created
    /\ log[j].fresh /\ ~log[j].created

\* A call still inside PublishEvent has assigned to the key in the bucket.
SameKeyInFlight(traceName, k) ==
    \E p \in Probes : pc[p] = "store" /\ frame[p].traceName = traceName /\ frame[p].key = k

\* No call is inside PublishEvent for the name.
Quiet(traceName) == \A p \in Probes : pc[p] = "idle" \/ frame[p].traceName # traceName

\* C21: when two PublishEvent calls race for the first event of a name, one
\* bucket is created for the name: the map stored under the name is never
\* replaced by another one and one call only reports having created it; the
\* entry of the call that created it is never discarded, and keeps its event
\* as long as no later call published under the same key; and when their keys
\* differ and the two calls are the calls made for the name, the bucket holds
\* both events once both have returned.
C21_FirstEventRaceKeepsBoth ==
    /\ [](\A tn \in TraceNames :
            /\ Cardinality({i \in EntriesOf(tn) : log[i].created}) <= 1
            /\ \A i \in EntriesOf(tn) :
                   log[i].created =>
                       /\ HasKey(Sink, tn, log[i].key)
                       /\ (UniqueKey(i) /\ ~SameKeyInFlight(tn, log[i].key))
                          => Bucket(Sink, tn)[log[i].key] = log[i].eventDetails
            /\ \A i, j \in EntriesOf(tn) :
                   (/\ RacedForFirst(i, j)
                    /\ log[i].key # log[j].key
                    /\ EntriesOf(tn) = {i, j}
                    /\ Quiet(tn))
                   => /\ DOMAIN Bucket(Sink, tn) = {log[i].key, log[j].key}
                      /\ Bucket(Sink, tn)[log[i].key] = log[i].eventDetails
                      /\ Bucket(Sink, tn)[log[j].key] = log[j].eventDetails)
    /\ [][\A tn \in DOMAIN data : tn \in DOMAIN data' /\ data'[tn] = data[tn]]_vars

\* Two calls raced for the first event of a name, both have returned and
\* their keys differ.
C21_Witness ==
    \E i, j \in DOMAIN log :
        /\ RacedForFirst(i, j)
        /\ log[i].key # log[j].key
        /\ EntriesOf(log[i].traceName) = {i, j}
        /\ Quiet(log[i].traceName)
        /\ log[i].container # log[j].container

-----------------------------------------------------------------------------
(* SpecCollect: Collect of a DNS or of a TCP trace collector, statement by  *)
(* statement, while the attached probe calls the collector's event callback.*)
(* The environment decides which acquisition of a Collect call fails.       *)


\* A container of the host network.
HostContainer == [Container("ns1", "pod2", "c2", 2) EXCEPT !.HostNetwork = TRUE]

\* The containers the DNS probe reports events of.
ProbedContainers == {Container("ns1", "pod1", "c1", 1), HostContainer}

RawEvent == [Node |-> "", Namespace |-> "", Pod |-> "", Container |-> "", Payload |-> "q1"]

\* eventtypes.EventString: the event's fields, rendered.
EventString(event) ==
    event.Node \o "|" \o event.Namespace \o "|" \o event.Pod \o "|"
    \o event.Container \o "|" \o event.Payload

\* dnsEventCallback up to its PublishEvent call: the enriched event.
dnsEventCallback(container, event) ==
    LET withNode == [event EXCEPT !.Node = HostNodeName]
    IN  IF ~container.HostNetwork
        THEN [withNode EXCEPT !.Namespace = container.Namespace,
                              !.Pod = container.Podname,
                              !.Container = container.Name]
        ELSE withNode

\* What the environment may make fail in one Collect call.
Faults(name) ==
    IF name = "ig-dnstrace"
    THEN {"none", "memlock", "initialize", "tracer", "connect"}
    ELSE {"none", "memlock", "initialize", "coreTracer", "bothTracers"}

\* A Collect that returns nil whatever failed.
CollectErrorSwallowed(name, f) == "nil"

\* The error a Collect call returns when the environment makes that step fail:
\* the cause, wrapped (nil when the call gets to its waiter).
CollectError(name, f) ==
    CASE f = "memlock" ->
           "failed to initialize container collection: " \o "failed to remove memlock: cause"
      [] f = "initialize" ->
           "failed to initialize container collection: "
           \o "failed to initialize container collection: cause"
      [] f = "tracer" -> "failed to start dns tracer: cause"
      [] f = "connect" -> "failed to connect network tracer - dns tracer: cause"
      [] f = "bothTracers" -> "failed to create a tracer: cause"
      [] OTHER -> "nil"

\* A deferred call that is never registered for a probe or its connection.
DeferCloseForgetsProbe(stack, resource) ==
    IF resource = "containerCollection" THEN Append(stack, resource) ELSE stack

\* A deferred call registered twice.
DeferCloseTwice(stack, resource) == Append(Append(stack, resource), resource)

\* defer resource.Close() / defer tracer.Stop()
DeferClose(stack, resource) == Append(stack, resource)

\* The deferred call that was registered first.
OldestDeferred(stack) == 1

\* The deferred call a returning function runs next: the one registered last.
NextDeferred(stack) == Len(stack)

WithoutDeferred(stack, i) == [j \in 1 .. Len(stack) - 1 |-> IF j < i THEN stack[j] ELSE stack[j + 1]]

\* Collect is called.
CollectCalled ==
    /\ cpc \in {"idle", "returned"}
    /\ runs < MaxRuns
    /\ runs' = runs + 1
    /\ \E f \in Faults(self) : fault' = f
    /\ cpc' = "init"
    /\ defers' = <<>>
    /\ acquired' = <<>>
    /\ closed' = <<>>
    /\ waited' = 0
    /\ got' = NoResult
    /\ UNCHANGED <<self, attached, result, phases>>
    /\ UNCHANGED <<data, heap, nextId, now, log, pc, frame, crashed>>

\* A return statement: the result is set and the deferred calls start.
Return(err) ==
    /\ result' = err
    /\ cpc' = "returning"

Acquire(resource, next) ==
    /\ attached' = attached \cup {resource}
    /\ acquired' = Append(acquired, resource)
    /\ defers' = DeferClose(defers, resource)
    /\ cpc' = next
    /\ UNCHANGED result

Fail(err) ==
    /\ Return(err)
    /\ UNCHANGED <<attached, acquired, defers>>

\* An InitContainerCollection that goes on to Initialize when the
\* memory-lock limit could not be raised.
InitContainerCollectionIgnoresMemlock(f, leaked) ==
    [memlock |-> IF f = "memlock" THEN "failed" ELSE "removed",
     initializeCalled |-> TRUE,
     initialized |-> f # "initialize",
     subscribed |-> IF f = "initialize" THEN leaked ELSE TRUE,
     collection |-> f # "initialize",
     err |-> IF f = "initialize" THEN "failed to initialize container collection: cause"
             ELSE "nil",
     events |-> 0,
     closed |-> FALSE]

\* IGTraceContainerCollector.InitContainerCollection (part_002 lines 48-84):
\* what it returns and what it has done, when the environment makes step f
\* fail. rlimit.RemoveMemlock comes first (51-53); Initialize runs the
\* options, the first of which subscribes containerEventCallback (72-81).
\* What an Initialize that fails leaves subscribed is the library's doing.
InitContainerCollectionReturns(f, leaked) ==
    IF f = "memlock"
    THEN [memlock |-> "failed", initializeCalled |-> FALSE, initialized |-> FALSE,
          subscribed |-> FALSE, collection |-> FALSE,
          err |-> "failed to remove memlock: cause", events |-> 0, closed |-> FALSE]
    ELSE IF f = "initialize"
    THEN [memlock |-> "removed", initializeCalled |-> TRUE, initialized |-> FALSE,
          subscribed |-> leaked, collection |-> FALSE,
          err |-> "failed to initialize container collection: cause", events |-> 0,
          closed |-> FALSE]
    ELSE [memlock |-> "removed", initializeCalled |-> TRUE, initialized |-> TRUE,
          subscribed |-> TRUE, collection |-> TRUE, err |-> "nil", events |-> 0,
          closed |-> FALSE]

\* InitContainerCollection with the caller's check and defer (DNS lines
\* 49-53, TCP lines 140-144).
InitContainerCollection ==
    /\ cpc = "init"
    /\ IF InitContainerCollectionReturns(fault, FALSE).err # "nil"
       THEN Fail(CollectError(self, fault))
       ELSE Acquire("containerCollection", "newTracer")
    /\ UNCHANGED <<self, fault, closed, waited, runs, phases>>
    /\ UNCHANGED sinkVars

\* The DNS collector: tracer.NewTracer and defer tracer.Close (lines 57-61).
NewDNSTracer ==
    /\ self = "ig-dnstrace"
    /\ cpc = "newTracer"
    /\ IF fault = "tracer"
       THEN Fail(CollectError(self, fault))
       ELSE Acquire("tracer", "connect")
    /\ UNCHANGED <<self, fault, closed, waited, runs, phases>>
    /\ UNCHANGED sinkVars

\* The DNS collector: ConnectToContainerCollection and defer conn.Close
\* (lines 87-91).
ConnectToContainerCollection ==
    /\ self = "ig-dnstrace"
    /\ cpc = "connect"
    /\ IF fault = "connect"
       THEN Fail(CollectError(self, fault))
       ELSE Acquire("conn", "waiter")
    /\ UNCHANGED <<self, fault, closed, waited, runs, phases>>
    /\ UNCHANGED sinkVars

\* A Collect that constructs the standard tracer whether or not the core
\* tracer was constructed.
AlwaysFallback(failed) == "fallback"

\* Where the TCP collector's Collect goes after tcptracer.NewTracer: into the
\* if err != nil block (lines 155-161) or past it.
AfterCoreTracer(failed) == IF failed THEN "fallback" ELSE "waiter"

\* The TCP collector: tcptracer.NewTracer (line 154); on failure the standard
\* tracer is tried next.
NewCoreTracer ==
    /\ self = "ig-tcptrace"
    /\ cpc = "newTracer"
    /\ IF fault \in {"coreTracer", "bothTracers"}
       THEN /\ cpc' = AfterCoreTracer(TRUE)
            /\ UNCHANGED <<attached, acquired, defers, result>>
       ELSE Acquire("coreTracer", AfterCoreTracer(FALSE))
    /\ UNCHANGED <<self, fault, closed, waited, runs, phases>>
    /\ UNCHANGED sinkVars

\* The TCP collector: standardtracer.NewTracer (lines 157-160).
NewStandardTracer ==
    /\ self = "ig-tcptrace"
    /\ cpc = "fallback"
    /\ IF fault = "bothTracers"
       THEN Fail(CollectError(self, fault))
       ELSE Acquire("standardTracer", "waiter")
    /\ UNCHANGED <<self, fault, closed, waited, runs, phases>>
    /\ UNCHANGED sinkVars

\* collector.waiter() is called (DNS line 95, TCP line 164).
WaiterCalled ==
    /\ cpc = "waiter"
    /\ cpc' = "waiting"
    /\ waited' = waited + 1
    /\ UNCHANGED <<self, fault, defers, acquired, closed, attached, result, runs, phases>>
    /\ UNCHANGED sinkVars

\* The waiter returns; return nil (DNS line 97, TCP line 166).
WaiterReturned ==
    /\ cpc = "waiting"
    /\ Return("nil")
    /\ UNCHANGED <<self, fault, defers, acquired, closed, attached, waited, runs, phases>>
    /\ UNCHANGED sinkVars

\* The returning Collect runs one deferred call, or has none left and is back
\* at its caller.
RunDeferred ==
    /\ cpc = "returning"
    /\ IF defers = <<>>
       THEN /\ cpc' = "returned"
            /\ UNCHANGED <<defers, closed, attached>>
       ELSE LET i == NextDeferred(defers)
            IN  /\ closed' = Append(closed, defers[i])
                /\ attached' = attached \ {defers[i]}
                /\ defers' = WithoutDeferred(defers, i)
                /\ cpc' = cpc
    /\ UNCHANGED <<self, fault, acquired, result, waited, runs, phases>>
    /\ UNCHANGED sinkVars

\* The probe is attached and reports events: the DNS probe once it is
\* connected to the container collection, the TCP probe once constructed.
Delivering ==
    IF self = "ig-dnstrace"
    THEN {"tracer", "conn"} \subseteq attached
    ELSE attached \cap {"coreTracer", "standardTracer"} # {}

\* The DNS probe calls dnsEventCallback (lines 64-74).
DNSEvent(container) ==
    /\ self = "ig-dnstrace"
    /\ Delivering
    /\ SeqPublishEvent(self, container, EventString(dnsEventCallback(container, RawEvent)))
    /\ phases' = Append(phases, cpc)
    /\ UNCHANGED <<self, cpc, fault, defers, acquired, closed, attached, result, waited, runs>>

\* The TCP probe calls tcpEventCallback (lines 146-149).
TCPEvent ==
    /\ self = "ig-tcptrace"
    /\ Delivering
    /\ SeqPublishEvent(self, NoContainer, EventString(RawEvent))
    /\ phases' = Append(phases, cpc)
    /\ UNCHANGED <<self, cpc, fault, defers, acquired, closed, attached, result, waited, runs>>

\* GetData, called on a collector whose Collect returned nil (DNS lines
\* 101-103, TCP lines 170-172).
GetData ==
    /\ cpc = "returned"
    /\ result = "nil"
    /\ got.tracerName = ""
    /\ SeqGetTracerData(self)
    /\ UNCHANGED collectVars

CollectTick ==
    /\ Tick
    /\ UNCHANGED collectVars

NextCollect ==
    \/ CollectCalled /\ UNCHANGED <<passVars, exportVars, envVars, remoteVars, auxVars>>
    \/ InitContainerCollection /\ UNCHANGED <<passVars, exportVars, envVars, remoteVars, auxVars>>
    \/ NewDNSTracer /\ UNCHANGED <<passVars, exportVars, envVars, remoteVars, auxVars>>
    \/ ConnectToContainerCollection /\ UNCHANGED <<passVars, exportVars, envVars, remoteVars, auxVars>>
    \/ NewCoreTracer /\ UNCHANGED <<passVars, exportVars, envVars, remoteVars, auxVars>>
    \/ NewStandardTracer /\ UNCHANGED <<passVars, exportVars, envVars, remoteVars, auxVars>>
    \/ WaiterCalled /\ UNCHANGED <<passVars, exportVars, envVars, remoteVars, auxVars>>
    \/ WaiterReturned /\ UNCHANGED <<passVars, exportVars, envVars, remoteVars, auxVars>>
    \/ RunDeferred /\ UNCHANGED <<passVars, exportVars, envVars, remoteVars, auxVars>>
    \/ \E c \in ProbedContainers : DNSEvent(c) /\ UNCHANGED <<passVars, exportVars, envVars, remoteVars, auxVars>>
    \/ TCPEvent /\ UNCHANGED <<passVars, exportVars, envVars, remoteVars, auxVars>>
    \/ GetData /\ UNCHANGED <<passVars, exportVars, envVars, remoteVars, auxVars>>
    \/ CollectTick /\ UNCHANGED <<passVars, exportVars, envVars, remoteVars, auxVars>>

\* One trace collector, DNS or TCP, as constructed; no pass is run.
InitTrace ==
    /\ InitSink
    /\ InitCollect
    /\ InitPass
    /\ InitExport
    /\ InitRemote
    /\ InitAux
    /\ InitEnv
    /\ self \in TraceNames
    /\ runtimeInfo \in {ri \in RuntimeInfos : ri.CollectorList = <<>> /\ ri.StorageAccountName = ""}

SpecCollect == InitTrace /\ [][NextCollect]_vars

-----------------------------------------------------------------------------
(* Claims checked under SpecCollect. *)

RECURSIVE Reverse(_)
Reverse(seq) == IF seq = <<>> THEN <<>> ELSE Append(Reverse(Tail(seq)), Head(seq))

IsPrefix(p, seq) == Len(p) <= Len(seq) /\ \A i \in 1 .. Len(p) : p[i] = seq[i]

Times(x, seq) == Cardinality({i \in DOMAIN seq : seq[i] = x})

Range(seq) == {seq[i] : i \in DOMAIN seq}

\* C5: on every exit path of Collect the resources acquired so far are
\* closed in reverse acquisition order (connection, probe, container
\* collection): at any moment the closed resources are, in order, the most
\* recently acquired ones, and at the return they are all of them.
C5_TeardownInReverseOrder ==
    /\ IsPrefix(closed, Reverse(acquired))
    /\ cpc = "returned" => closed = Reverse(acquired)

\* C5's case: a Collect that got to its waiter has returned.
C5_Witness ==
    /\ cpc = "returned"
    /\ waited = 1
    /\ closed = <<"conn", "tracer", "containerCollection">>

\* C5's early exits: the connection failed, the probe failed.
C5_WitnessConnectFailed ==
    /\ cpc = "returned"
    /\ fault = "connect"
    /\ closed = <<"tracer", "containerCollection">>

C5_WitnessTracerFailed ==
    /\ cpc = "returned"
    /\ fault \in {"tracer", "bothTracers"}
    /\ closed = <<"containerCollection">>

\* C6: whenever Collect has returned, with or without an error, every
\* resource it acquired has been closed exactly once and none is attached;
\* so every Collect call starts with nothing attached, and a call in which
\* the environment fails nothing returns nil, the second like the first.
C6_NothingAttachedAfterCollect ==
    /\ cpc \in {"idle", "init", "returned"} => attached = {}
    /\ cpc = "returned" =>
         /\ defers = <<>>
         /\ Range(closed) = Range(acquired)
         /\ \A r \in Range(acquired) : Times(r, acquired) = 1 /\ Times(r, closed) = 1
         /\ fault = "none" => result = "nil"

\* C6's case: the second of two Collect calls has returned nil.
C6_Witness ==
    /\ runs = 2
    /\ cpc = "returned"
    /\ result = "nil"
    /\ Len(closed) >= 2
    /\ Len(log) >= 1

\* C7: every PublishEvent into the collector's bucket happens inside a
\* Collect call; once Collect has returned the probe reports nothing, so the
\* GetData read that follows has seen every write and none follows it.
C7_NoPublishAfterReturn ==
    /\ \A i \in DOMAIN phases : phases[i] \notin {"idle", "returned"}
    /\ cpc \in {"idle", "returned"} => ~Delivering
    /\ got.tracerName # "" => (cpc = "returned" /\ got.at = Len(log))

\* C7's case: events were published while Collect waited and GetData has
\* read the bucket.
C7_Witness ==
    /\ got.tracerName # ""
    /\ ~got.panicked
    /\ Len(log) >= 2
    /\ \E i \in DOMAIN phases : phases[i] = "waiting"

Tracers == {"coreTracer", "standardTracer"}

\* C11: in the TCP collector's Collect the standard tracer is constructed
\* only after the core tracer failed, never after it succeeded, and with the
\* same callback (every event is published under the collector's name with
\* the same details); the waiter is invoked exactly when one of the two was
\* constructed; Collect returns the wrapped error, the waiter not invoked,
\* only when both failed; and exactly one tracer is stopped at teardown.
C11_FallbackTracer ==
    self = "ig-tcptrace" =>
      /\ cpc = "fallback" => fault \in {"coreTracer", "bothTracers"} /\ "coreTracer" \notin Range(acquired)
      /\ "standardTracer" \in Range(acquired) => fault = "coreTracer" /\ "coreTracer" \notin Range(acquired)
      /\ Cardinality(Range(acquired) \cap Tracers) <= 1
      /\ waited <= 1
      /\ waited = 1 => Cardinality(Range(acquired) \cap Tracers) = 1
      /\ cpc \in {"waiter", "waiting"} => Cardinality(attached \cap Tracers) = 1
      /\ \A i \in DOMAIN log :
           log[i].traceName = self /\ log[i].eventDetails = EventString(RawEvent)
      /\ cpc = "returned" =>
           /\ fault = "none" => "coreTracer" \in Range(acquired)
           /\ fault \in {"none", "coreTracer"} =>
                /\ result = "nil"
                /\ waited = 1
                /\ Cardinality({i \in DOMAIN closed : closed[i] \in Tracers}) = 1
           /\ fault = "bothTracers" =>
                /\ result = "failed to create a tracer: cause"
                /\ waited = 0
                /\ Range(closed) \cap Tracers = {}
           /\ result = "failed to create a tracer: cause" => fault = "bothTracers"

\* C11's case: the core tracer failed, the standard tracer reported an event
\* during the waiter, and Collect has returned nil with that tracer stopped.
C11_Witness ==
    /\ self = "ig-tcptrace"
    /\ cpc = "returned"
    /\ fault = "coreTracer"
    /\ result = "nil"
    /\ closed = <<"standardTracer", "containerCollection">>
    /\ \E i \in DOMAIN phases : phases[i] = "waiting"

\* C11's other case: both tracers failed.
C11_WitnessBothFailed ==
    /\ self = "ig-tcptrace"
    /\ cpc = "returned"
    /\ fault = "bothTracers"
    /\ closed = <<"containerCollection">>

\* The state of the trace collector's state machine a Collect call is in.
CollectState ==
    CASE cpc = "idle" -> "Constructed"
      [] cpc \in {"init", "newTracer", "connect", "fallback", "waiter"} -> "Initializing"
      [] cpc = "waiting" -> "Running"
      [] cpc = "returning" /\ result = "nil" -> "Draining"
      [] cpc = "returned" /\ result = "nil" -> "Done"
      [] OTHER -> "Failed"

\* The moves of the state machine; from Done or Failed the next Collect call
\* starts over.
CollectMoves ==
    {<<"Constructed", "Initializing">>, <<"Initializing", "Running">>,
     <<"Running", "Draining">>, <<"Draining", "Done">>, <<"Initializing", "Failed">>,
     <<"Done", "Initializing">>, <<"Failed", "Initializing">>}

\* What a collector acquires before its waiter: the DNS collector the
\* container collection, the tracer and its connection; the TCP collector the
\* container collection and one tracer, which its constructor connects.
AcquiredBeforeWaiter(name) ==
    IF name = "ig-dnstrace"
    THEN {{"containerCollection", "tracer", "conn"}}
    ELSE {{"containerCollection", "coreTracer"}, {"containerCollection", "standardTracer"}}

\* The wrapped errors a Collect can return.
WrappedErrors(name) ==
    {"failed to initialize container collection: " \o "failed to remove memlock: cause",
     "failed to initialize container collection: "
         \o "failed to initialize container collection: cause"}
    \cup (IF name = "ig-dnstrace"
          THEN {"failed to start dns tracer: cause",
                "failed to connect network tracer - dns tracer: cause"}
          ELSE {"failed to create a tracer: cause"})

\* C22: a Collect call moves through Initializing, Running, Draining, Done
\* in that order, no state skipped or revisited, or ends in Failed; the waiter
\* is invoked (Running) only with the container collection, the probe and its
\* connection acquired and attached, at most once per call; and a failed
\* initialization step returns a wrapped error, the waiter never invoked.
C22_CollectStateMachine ==
    /\ [](/\ waited <= 1
          /\ waited = 1 <=> CollectState \in {"Running", "Draining", "Done"}
          /\ CollectState = "Running" =>
                /\ attached \in AcquiredBeforeWaiter(self)
                /\ Range(acquired) = attached
                /\ closed = <<>>
          /\ CollectState = "Failed" =>
                /\ waited = 0
                /\ result \in WrappedErrors(self)
                /\ fault \notin {"none", "coreTracer"}
          /\ (cpc = "returned" /\ fault \notin {"none", "coreTracer"}) =>
                CollectState = "Failed")
    /\ [][CollectState' # CollectState => <<CollectState, CollectState'>> \in CollectMoves]_vars

\* C22's case: the second Collect call of a collector has gone through the
\* four states and is Done, events published while it was Running.
C22_Witness ==
    /\ runs = 2
    /\ CollectState = "Done"
    /\ waited = 1
    /\ \E i \in DOMAIN phases : phases[i] = "waiting"

\* C22's other case: the connection of the DNS probe failed and the call is
\* Failed.
C22_WitnessFailed ==
    /\ cpc = "returned"
    /\ fault = "connect"
    /\ CollectState = "Failed"
    /\ acquired = <<"containerCollection", "tracer">>

\* The event a callback forwards for container when it has set the node
\* and, for a container outside the host network, the container's names.
Enriched(container) ==
    [Node |-> HostNodeName,
     Namespace |-> IF container.HostNetwork THEN "" ELSE container.Namespace,
     Pod |-> IF container.HostNetwork THEN "" ELSE container.Podname,
     Container |-> IF container.HostNetwork THEN "" ELSE container.Name,
     Payload |-> RawEvent.Payload]

\* Every forwarded event went to the bucket of the collector's own name.
C33_PublishedUnderOwnName ==
    /\ \A i \in DOMAIN log : log[i].traceName = self
    /\ DOMAIN data \subseteq {self}

\* The events the DNS collector forwarded are enriched.
C33_DNSEventsEnriched ==
    self = "ig-dnstrace" =>
        \A i \in DOMAIN log :
            /\ log[i].container \in ProbedContainers
            /\ log[i].eventDetails = EventString(Enriched(log[i].container))

\* C33: every event a DNS or TCP trace collector forwards to its sink
\* carries the node's name, carries the container's namespace, pod and
\* container names if and only if the container is not of the host network,
\* and is published under the collector's own name.
C33_ForwardedEventsEnriched ==
    /\ C33_PublishedUnderOwnName
    /\ \A i \in DOMAIN log : log[i].eventDetails = EventString(Enriched(log[i].container))

\* The DNS collector has forwarded an event of a container of the host
\* network and one of another container.
C33_WitnessDNS ==
    /\ self = "ig-dnstrace"
    /\ \E i, j \in DOMAIN log :
          /\ log[i].container = HostContainer
          /\ log[i].eventDetails = "node1||||q1"
          /\ log[j].eventDetails = "node1|ns1|pod1|c1|q1"

\* C24: a GetData that follows a Collect that returned nil returns a map and
\* does not fail: the collector's bucket when events were published during
\* the call, an empty map when none was.
C24_GetDataAfterSuccessfulCollect ==
    (cpc = "returned" /\ result = "nil" /\ got.tracerName # "") =>
        /\ ~got.panicked
        /\ PublishedBefore(self, got.at) =>
              got.events \in DOMAIN heap /\ DOMAIN heap[got.events] # {}
        /\ ~PublishedBefore(self, got.at) =>
              got.events = NilRef \/ DOMAIN heap[got.events] = {}

-----------------------------------------------------------------------------
(* The collectors' contract methods and the exporter, as the orchestrator   *)
(* calls them.                                                              *)

\* A membership test that looks at the first element alone.
ContainsFirst(list, x) == list # <<>> /\ list[1] = x

\* utils.Contains
Contains(list, x) == \E i \in DOMAIN list : list[i] = x

\* strings.Join
RECURSIVE Join(_, _)
Join(elems, sep) ==
    IF elems = <<>> THEN ""
    ELSE IF Len(elems) = 1 THEN elems[1]
    ELSE elems[1] \o sep \o Join(Tail(elems), sep)

\* SystemPerfCollector.CheckSupported; the trace collectors' CheckSupported
\* returns nil.
CheckSupported(name, ri) ==
    IF name = "systemperf" /\ Contains(ri.CollectorList, "connectedCluster")
    THEN "Not included because 'connectedCluster' is in COLLECTOR_LIST variable. Included values: "
         \o Join(ri.CollectorList, " ")
    ELSE "nil"

\* What the environment may make fail in SystemPerfCollector.Collect.
PerfFaults ==
    {"none", "config", "nodeList", "nodeMemory", "nodeJson", "podList", "podMemory", "podJson"}

\* SystemPerfCollector.Collect: the error it returns and the data it leaves.
\* A node memory quantity that is no int64 returns err, which is nil there;
\* "nodes" is stored before the pod metrics are listed.
SystemPerfCollect(before, f) ==
    LET withNodes == ("nodes" :> "[nodes]") @@ before
        withPods == ("pods" :> "[pods]") @@ withNodes
    IN  CASE f = "config" -> [err |-> "metrics for config error: cause", data |-> before]
          [] f = "nodeList" -> [err |-> "node metrics error: cause", data |-> before]
          [] f = "nodeMemory" -> [err |-> "nil", data |-> before]
          [] f = "nodeJson" -> [err |-> "marshall node metrics to json: cause", data |-> before]
          [] f = "podList" -> [err |-> "pod metrics failure: cause", data |-> withNodes]
          [] f = "podMemory" -> [err |-> "usage memory failure: %!w(<nil>)", data |-> withNodes]
          [] f = "podJson" -> [err |-> "marshall pod metrics to json: cause", data |-> withNodes]
          [] OTHER -> [err |-> "nil", data |-> withPods]

\* The container a probe callback hands to PublishEvent: the DNS callback
\* its container argument, the TCP callback nil.
CallbackContainer(name) ==
    IF name = "ig-dnstrace" THEN Container("ns1", "pod1", "c1", 1) ELSE NoContainer

\* The event details a probe callback publishes.
CallbackDetails(name) ==
    IF name = "ig-dnstrace"
    THEN EventString(dnsEventCallback(CallbackContainer(name), RawEvent))
    ELSE EventString(RawEvent)

\* The sink after the probe has reported n events, at the instants t .. t+n-1.
RECURSIVE PublishAll(_, _, _, _)
PublishAll(s, name, n, t) ==
    IF n = 0 THEN s
    ELSE LET after == PublishEvent(s, name, CallbackContainer(name), CallbackDetails(name), t, t)
         IN  PublishAll(Reachable(after, SinkRoots(after)), name, n - 1, t + 1)

\* A whole Collect of a trace collector: the error it returns and the sink it
\* leaves, when the environment makes step f fail and the probe reports n
\* events while attached. A Collect that fails never had a probe delivering.
TraceCollect(s, name, f, n) ==
    IF CollectError(name, f) # "nil"
    THEN [err |-> CollectError(name, f), sink |-> s]
    ELSE [err |-> "nil", sink |-> PublishAll(s, name, n, 1)]

\* GetData of a collector: the trace collectors return their bucket
\* (GetTracerData), the system performance collector its data.
CollectorGetData(name, traceSinks, perf) ==
    IF name \in TraceNames
    THEN LET r == GetTracerData(traceSinks[name], name)
         IN  [panicked |-> r.panicked,
              items |-> IF r.panicked THEN <<>> ELSE traceSinks[name].heap[r.events]]
    ELSE [panicked |-> FALSE, items |-> perf]

\* strings.Replace(s, old, new, 1): the first occurrence only.
ReplaceFirst(chars, old, new) ==
    [i \in DOMAIN chars |->
       IF chars[i] = old /\ \A j \in 1 .. i - 1 : chars[j] # old THEN new ELSE chars[i]]

\* strings.Replace(s, old, new, -1) for one-character old and new.
Replace(chars, old, new) == [i \in DOMAIN chars |-> IF chars[i] = old THEN new ELSE chars[i]]

\* A blob name without the node's segment.
BlobNameWithoutNode(ri, key) == Join(Replace(CreationTime, ":", "-"), "") \o "/" \o key

\* The blob name of an item: fmt.Sprintf("%s/%s/%s", ...).
BlobName(ri, key) ==
    Join(Replace(CreationTime, ":", "-"), "") \o "/" \o ri.HostNodeName \o "/" \o key

\* A table of key types that holds the empty type too.
storageKeyTypesWithEmpty == {"Container", ""}

\* var storageKeyTypes
storageKeyTypes == {"Container"}

\* What building the URL and creating the container may come to.
CreateOutcomes == {"created", "alreadyExists", "storageError", "error", "badUrl"}

\* A check that looks at the account name alone.
AccountNameConfigured(ri) == ri.StorageAccountName # ""

\* createContainerURL, lines 107-110: the three storage settings are there.
StorageConfigured(ri) ==
    ~(ri.StorageAccountName = "" \/ ri.StorageSasKey = "" \/ ri.StorageContainerName = "")

\* A createContainerURL to which every error of containerURL.Create is fatal,
\* "already exists" too.
createContainerURLStrict(ri, outcome) ==
    IF ~StorageConfigured(ri)
    THEN "Storage not configured."
    ELSE IF outcome = "badUrl" THEN "build blob container url: cause"
    ELSE IF ri.StorageSasKeyType \in storageKeyTypes THEN "nil"
    ELSE IF outcome \in {"storageError", "alreadyExists"}
    THEN "create container with storage error: cause"
    ELSE IF outcome = "error" THEN "create container: cause"
    ELSE "nil"

\* createContainerURL: the error it returns.
createContainerURL(ri, outcome) ==
    IF ~StorageConfigured(ri)
    THEN "Storage not configured."
    ELSE IF outcome = "badUrl" THEN "build blob container url: cause"
    ELSE IF ri.StorageSasKeyType \in storageKeyTypes THEN "nil"
    ELSE IF outcome = "storageError" THEN "create container with storage error: cause"
    ELSE IF outcome = "error" THEN "create container: cause"
    ELSE "nil"

\* No item: every upload of the call succeeds.
NoItem == ""

\* The calls recorded for collector c, one more of method m.
Called(c, m) == [calls EXCEPT ![c][m] = @ + 1]

\* AzureBlobExporter.Export(producer), the whole call. The items are ranged
\* over in any order; the first failing upload ends the call.
Export(c) ==
    \E outcome \in CreateOutcomes :
      LET urlErr == createContainerURL(runtimeInfo, outcome)
          r == CollectorGetData(c, sinks, perfData)
      IN  IF urlErr # "nil"
          THEN /\ exportErrs' = exportErrs \cup {[name |-> c, err |-> urlErr]}
               /\ calls' = Called(c, "Export")
               /\ status' = [status EXCEPT ![c] = "exported"]
               /\ UNCHANGED <<uploads, panicked>>
          ELSE IF r.panicked
          THEN /\ panicked' = TRUE
               /\ calls' = [calls EXCEPT ![c].Export = @ + 1, ![c].GetData = @ + 1]
               /\ UNCHANGED <<uploads, exportErrs, status>>
          ELSE \E failing \in DOMAIN r.items \cup {NoItem} :
                 \E done \in SUBSET (DOMAIN r.items \ {failing}) :
                   /\ failing = NoItem => done = DOMAIN r.items
                   /\ uploads' = uploads \cup
                        {[producer |-> c, key |-> k, name |-> BlobName(runtimeInfo, k),
                          content |-> r.items[k]] : k \in done}
                   /\ exportErrs' =
                        IF failing = NoItem THEN exportErrs
                        ELSE exportErrs \cup
                               {[name |-> c,
                                 err |-> "append file " \o failing \o " to blob: cause"]}
                   /\ calls' = [calls EXCEPT ![c].Export = @ + 1, ![c].GetData = @ + 1]
                   /\ status' = [status EXCEPT ![c] = "exported"]
                   /\ UNCHANGED panicked

-----------------------------------------------------------------------------
(* SpecPass: one pass of the orchestrator over the registered collectors.   *)
(* The collectors are taken through CheckSupported and Collect in any       *)
(* interleaving; once none is left the collectors whose Collect succeeded   *)
(* are exported, in any order.                                              *)

\* A collector is skipped whichever error its CheckSupported returns.
SupportedWhatever(err) == TRUE

\* The orchestrator goes on with a collector whose CheckSupported returned nil.
Supported(err) == err = "nil"

\* An orchestrator that stops calling Collect at the first error.
MayCollectUntilFailure(combined) == combined = <<>>

\* The orchestrator calls Collect whatever the collectors before returned.
MayCollect(combined) == TRUE

RunCheckSupported(c) ==
    /\ phase = "collecting"
    /\ status[c] = "registered"
    /\ LET err == CheckSupported(c, runtimeInfo)
       IN  /\ checkErr' = [checkErr EXCEPT ![c] = err]
           /\ status' = [status EXCEPT ![c] = IF Supported(err) THEN "supported" ELSE "skipped"]
    /\ calls' = Called(c, "CheckSupported")
    /\ UNCHANGED <<runtimeInfo, phase, errs, sinks, perfData, uploads, exportErrs, panicked>>

RunCollect(c) ==
    /\ phase = "collecting"
    /\ status[c] = "supported"
    /\ MayCollect(errs)
    /\ status' = [status EXCEPT ![c] = "collecting"]
    /\ calls' = [calls EXCEPT ![c].Collect = @ + 1, ![c].after = Len(errs)]
    /\ UNCHANGED <<runtimeInfo, phase, checkErr, errs, sinks, perfData, uploads, exportErrs,
                   panicked>>

\* Collect of collector c has returned err: an error joins the combined result.
CollectReturned(c, err) ==
    /\ status' = [status EXCEPT ![c] = IF err = "nil" THEN "collected" ELSE "failed"]
    /\ errs' = IF err = "nil" THEN errs ELSE Append(errs, [name |-> c, err |-> err])
    /\ UNCHANGED <<runtimeInfo, phase, calls, checkErr, uploads, exportErrs, panicked>>

\* Trace collectors that all publish into the sink of the first of them.
SharedSink(c) == "ig-dnstrace"

\* The sink a trace collector publishes into: the IGTraceContainerCollector
\* its constructor made, which no other collector holds.
OwnSink(c) == c

TraceCollectReturns(c) ==
    /\ c \in TraceNames
    /\ status[c] = "collecting"
    /\ \E f \in Faults(c), n \in 0 .. MaxEvents :
         LET r == TraceCollect(sinks[OwnSink(c)], c, f, n)
         IN  /\ sinks' = [sinks EXCEPT ![OwnSink(c)] = r.sink]
             /\ CollectReturned(c, r.err)
    /\ UNCHANGED perfData

SystemPerfCollectReturns ==
    /\ status["systemperf"] = "collecting"
    /\ \E f \in PerfFaults :
         LET r == SystemPerfCollect(perfData, f)
         IN  /\ perfData' = r.data
             /\ CollectReturned("systemperf", r.err)
    /\ UNCHANGED sinks

\* No collector is left to check or to collect: the export begins.
CollectionOver ==
    /\ phase = "collecting"
    /\ \A c \in Collectors :
         \/ status[c] \in {"skipped", "collected", "failed"}
         \/ status[c] = "supported" /\ ~MayCollect(errs)
    /\ phase' = "exporting"
    /\ UNCHANGED <<runtimeInfo, status, calls, checkErr, errs, sinks, perfData, uploads,
                   exportErrs, panicked>>

\* An orchestrator that exports every collector whose Collect returned.
ExportableWhenReturned(c) == status[c] \in {"collected", "failed"}

\* The collectors the orchestrator hands to Export: those whose Collect
\* succeeded.
Exportable(c) == status[c] = "collected"

RunExport(c) ==
    /\ phase = "exporting"
    /\ ~panicked
    /\ Exportable(c)
    /\ Export(c)
    /\ UNCHANGED <<runtimeInfo, phase, checkErr, errs, sinks, perfData>>

PassOver ==
    /\ phase = "exporting"
    /\ ~panicked
    /\ \A c \in Collectors : ~Exportable(c)
    /\ phase' = "done"
    /\ UNCHANGED <<runtimeInfo, status, calls, checkErr, errs, sinks, perfData, uploads,
                   exportErrs, panicked>>

NextPass ==
    \/ \E c \in Collectors : RunCheckSupported(c) /\ UNCHANGED <<sinkVars, collectVars, exportVars, envVars, remoteVars, auxVars>>
    \/ \E c \in Collectors : RunCollect(c) /\ UNCHANGED <<sinkVars, collectVars, exportVars, envVars, remoteVars, auxVars>>
    \/ \E c \in TraceNames : TraceCollectReturns(c) /\ UNCHANGED <<sinkVars, collectVars, exportVars, envVars, remoteVars, auxVars>>
    \/ SystemPerfCollectReturns /\ UNCHANGED <<sinkVars, collectVars, exportVars, envVars, remoteVars, auxVars>>
    \/ CollectionOver /\ UNCHANGED <<sinkVars, collectVars, exportVars, envVars, remoteVars, auxVars>>
    \/ \E c \in Collectors : RunExport(c) /\ UNCHANGED <<sinkVars, collectVars, exportVars, envVars, remoteVars, auxVars>>
    \/ PassOver /\ UNCHANGED <<sinkVars, collectVars, exportVars, envVars, remoteVars, auxVars>>

InitRun ==
    /\ InitSink
    /\ InitCollect
    /\ InitPass
    /\ InitExport
    /\ InitRemote
    /\ InitAux
    /\ InitEnv
    /\ self = "ig-dnstrace"
    /\ runtimeInfo \in RuntimeInfos

SpecPass == InitRun /\ [][NextPass]_vars

-----------------------------------------------------------------------------
(* Claims checked under SpecPass. *)

Skipped == {c \in Collectors : calls[c].CheckSupported = 1 /\ checkErr[c] # "nil"}

Succeeded == {c \in Collectors : status[c] \in {"collected", "exported"}}

Failed == {c \in Collectors : status[c] = "failed"}

UploadedFrom(c) == {u \in uploads : u.producer = c}

\* C2: a collector whose CheckSupported failed is skipped: Collect and GetData
\* are never called on it, it is never handed to Export and no uploaded item
\* comes from it; and the pass goes on: when the collection is over, every
\* other collector has been checked and, if supported, collected.
C2_UnsupportedIsSkippedOnly ==
    /\ \A c \in Skipped :
         /\ status[c] = "skipped"
         /\ calls[c].Collect = 0
         /\ calls[c].GetData = 0
         /\ calls[c].Export = 0
         /\ UploadedFrom(c) = {}
    /\ (phase # "collecting" /\ Skipped # {}) =>
         \A d \in Collectors \ Skipped :
           /\ calls[d].CheckSupported = 1
           /\ calls[d].Collect = 1
           /\ status[d] \in {"collected", "failed", "exported"}

\* The pass is over, the system performance collector was skipped, and items
\* of another collector were uploaded.
C2_Witness ==
    /\ phase = "done"
    /\ "systemperf" \in Skipped
    /\ \E c \in Collectors \ Skipped : UploadedFrom(c) # {}

\* C3: Collect is called at most once on a collector and only on a supported
\* one; when the collection is over it has been called exactly once on every
\* supported collector, whatever the others returned; and the combined result
\* holds exactly one error for each collector whose Collect failed, the one
\* that Collect returned, and nothing else.
C3_EveryCollectOnceAndEveryErrorKept ==
    /\ \A c \in Collectors :
         /\ calls[c].Collect <= 1
         /\ calls[c].Collect = 1 => calls[c].CheckSupported = 1 /\ checkErr[c] = "nil"
         /\ Cardinality({i \in DOMAIN errs : errs[i].name = c}) = IF c \in Failed THEN 1 ELSE 0
    /\ \A i \in DOMAIN errs : errs[i].name \in Collectors /\ errs[i].err # "nil"
    /\ phase # "collecting" =>
         \A c \in Collectors :
           /\ calls[c].CheckSupported = 1
           /\ checkErr[c] = "nil" => calls[c].Collect = 1 /\ c \in Succeeded \cup Failed

\* The collection is over, two collectors failed, and a collector whose
\* Collect was called after a failure succeeded.
C3_Witness ==
    /\ phase # "collecting"
    /\ Len(errs) = 2
    /\ \E c \in Succeeded : calls[c].after > 0

\* C4: when the pass has ended and at least one Collect failed, the
\* collectors whose GetData went through Export are exactly the collectors
\* whose Collect succeeded.
C4_ExportedAreTheSucceeded ==
    ((phase = "done" \/ panicked) /\ Failed # {}) =>
        {c \in Collectors : status[c] = "exported"} = Succeeded

\* C26: a collector whose Collect returned an error contributes nothing to
\* the export of the pass: GetData is never called on it, it is never handed
\* to Export and no uploaded item comes from it, whatever it had stored
\* before it failed.
C26_FailedCollectorNotExported ==
    \A i \in DOMAIN errs :
        LET c == errs[i].name
        IN  /\ status[c] = "failed"
            /\ calls[c].GetData = 0
            /\ calls[c].Export = 0
            /\ UploadedFrom(c) = {}

\* C26's case: the system performance collector stored its node metrics and
\* failed listing the pod metrics; the pass is over and another collector's
\* items were uploaded.
C26_Witness ==
    /\ phase = "done"
    /\ \E i \in DOMAIN errs :
         errs[i].name = "systemperf" /\ errs[i].err = "pod metrics failure: cause"
    /\ DOMAIN perfData = {"nodes"}
    /\ \E c \in TraceNames : UploadedFrom(c) # {}

\* C28: whenever Collect of the system performance collector has returned
\* nil its data holds both "nodes" and "pods": a Collect that met a condition
\* it cannot recover from, and so stored less, has returned an error.
C28_SystemPerfSuccessHasBothOutputs ==
    status["systemperf"] \in {"collected", "exported"} =>
        {"nodes", "pods"} \subseteq DOMAIN perfData

\* What the environment decides in the Collect of a collector: the step that
\* fails and the number of events the probe reports.
ChoicesOf(c) ==
    IF c \in TraceNames
    THEN [f : Faults(c), n : 0 .. MaxEvents]
    ELSE [f : PerfFaults, n : {0}]

\* The orders in which a sequential pass can take the collectors.
Orders == {o \in [1 .. Cardinality(Collectors) -> Collectors] : Range(o) = Collectors}

\* The pass before its first collector.
SeqStart ==
    [skipped |-> {}, errors |-> {}, succeeded |-> {},
     sinks |-> [tn \in TraceNames |-> EmptySink], perf |-> <<>>]

\* One turn of the sequential loop: CheckSupported, then Collect, whose error
\* joins the result.
SeqTurn(acc, c, ch) ==
    IF ~Supported(CheckSupported(c, runtimeInfo))
    THEN [acc EXCEPT !.skipped = @ \cup {c}]
    ELSE LET r == IF c \in TraceNames
                  THEN LET t == TraceCollect(acc.sinks[c], c, ch.f, ch.n)
                       IN  [err |-> t.err, sinks |-> [acc.sinks EXCEPT ![c] = t.sink],
                            perf |-> acc.perf]
                  ELSE LET p == SystemPerfCollect(acc.perf, ch.f)
                       IN  [err |-> p.err, sinks |-> acc.sinks, perf |-> p.data]
         IN  [acc EXCEPT !.sinks = r.sinks, !.perf = r.perf,
                         !.errors = IF r.err = "nil" THEN @
                                    ELSE @ \cup {[name |-> c, err |-> r.err]},
                         !.succeeded = IF r.err = "nil" THEN @ \cup {c} ELSE @]

\* The sequential pass over the collectors in the given order, from turn i.
RECURSIVE SeqPass(_, _, _, _)
SeqPass(order, i, choice, acc) ==
    IF i > Len(order) THEN acc
    ELSE SeqPass(order, i + 1, choice, SeqTurn(acc, order[i], choice[order[i]]))

\* What a pass shows once its collection is over: the skipped collectors,
\* the Collect errors, and what GetData of each succeeded collector gives the
\* exporter.
Observable(skipped, errors, succeeded, traceSinks, perf) ==
    [skipped |-> skipped, errors |-> errors,
     items |-> [c \in succeeded |-> CollectorGetData(c, traceSinks, perf)]]

SeqObservable(order, choice) ==
    LET acc == SeqPass(order, 1, choice, SeqStart)
    IN  Observable(acc.skipped, acc.errors, acc.succeeded, acc.sinks, acc.perf)

\* The Collect error recorded for collector c, nil when there is none.
ErrOf(c) ==
    IF \E i \in DOMAIN errs : errs[i].name = c
    THEN (CHOOSE e \in Range(errs) : e.name = c).err
    ELSE "nil"

\* The environment's decisions that make a Collect of c, run alone on the
\* collector as constructed, end as the pass shows it.
ChoicesSeen(c) ==
    IF status[c] \in {"registered", "skipped", "supported", "collecting"}
    THEN ChoicesOf(c)
    ELSE {ch \in ChoicesOf(c) :
            IF c \in TraceNames
            THEN TraceCollect(EmptySink, c, ch.f, ch.n) = [err |-> ErrOf(c), sink |-> sinks[c]]
            ELSE SystemPerfCollect(<<>>, ch.f) = [err |-> ErrOf(c), data |-> perfData]}

\* C27: the collectors taken through the pass in any interleaving leave what
\* a sequential pass leaves, in whatever order it takes them, under the same
\* decisions of the environment: the same skipped collectors, the same
\* Collect errors, the same items for the exporter, and only these are
\* uploaded. Each trace collector's sink holds the events of that collector
\* alone, written by its own Collect.
C27_ParallelAsSequential ==
    /\ \A c \in TraceNames :
         /\ DOMAIN sinks[c].data \subseteq {c}
         /\ status[c] \in {"registered", "skipped", "supported", "collecting"} =>
               sinks[c] = EmptySink
         /\ \A r \in DOMAIN sinks[c].heap :
               \A k \in DOMAIN sinks[c].heap[r] : sinks[c].heap[r][k] = CallbackDetails(c)
    /\ phase # "collecting" =>
         /\ \A c \in Collectors : ChoicesSeen(c) # {}
         /\ \E d \in ChoicesSeen("ig-dnstrace"), t \in ChoicesSeen("ig-tcptrace"),
                p \in ChoicesSeen("systemperf") :
              LET choice == [c \in Collectors |->
                               IF c = "ig-dnstrace" THEN d
                               ELSE IF c = "ig-tcptrace" THEN t ELSE p]
                  seen == Observable({c \in Collectors : status[c] = "skipped"},
                                     Range(errs), Succeeded, sinks, perfData)
              IN  \A order \in Orders : SeqObservable(order, choice) = seen
         /\ \A u \in uploads :
              LET r == CollectorGetData(u.producer, sinks, perfData)
              IN  /\ u.producer \in Succeeded
                  /\ ~r.panicked
                  /\ u.key \in DOMAIN r.items
                  /\ u.content = r.items[u.key]

\* C27's case: both trace collectors published events, the system
\* performance collector failed, and the pass has exported both trace
\* collectors.
C27_Witness ==
    /\ phase = "done"
    /\ \A c \in TraceNames : status[c] = "exported" /\ UploadedFrom(c) # {}
    /\ Len(errs) = 1

\* C27's interleaving: the three collectors are inside Collect at once.
C27_WitnessInterleaved == \A c \in Collectors : status[c] = "collecting"

\* C18: CheckSupported of the system performance collector returns an error
\* exactly when the collector list holds "connectedCluster", the error names
\* that value and the list, and with an empty list it returns nil; the call
\* leaves the collector's data as it was.
C18_ConnectedClusterExcluded ==
    /\ [](calls["systemperf"].CheckSupported = 1 =>
            LET list == runtimeInfo.CollectorList
                err == checkErr["systemperf"]
            IN  /\ err # "nil" <=> \E i \in DOMAIN list : list[i] = "connectedCluster"
                /\ list = <<>> => err = "nil"
                /\ list = <<"connectedCluster">> =>
                     err = "Not included because 'connectedCluster' is in COLLECTOR_LIST variable. Included values: connectedCluster"
                /\ list = <<"dns", "connectedCluster">> =>
                     err = "Not included because 'connectedCluster' is in COLLECTOR_LIST variable. Included values: dns connectedCluster")
    /\ [][\A c \in Collectors :
            calls'[c].CheckSupported # calls[c].CheckSupported =>
              perfData' = perfData /\ sinks' = sinks]_vars

\* C18's case: "connectedCluster" is in the list, not in the first place,
\* and CheckSupported has returned its error.
C18_Witness ==
    /\ runtimeInfo.CollectorList = <<"dns", "connectedCluster">>
    /\ calls["systemperf"].CheckSupported = 1
    /\ checkErr["systemperf"] # "nil"

\* C18's other cases: a list without the value, the empty list.
C18_WitnessOtherValue ==
    /\ runtimeInfo.CollectorList = <<"dns">>
    /\ status["systemperf"] = "supported"

C18_WitnessEmptyList ==
    /\ runtimeInfo.CollectorList = <<>>
    /\ status["systemperf"] = "supported"

\* The Export call on collector c returned nil.
ExportedWithoutError(c) ==
    status[c] = "exported" /\ \A x \in exportErrs : x.name # c

\* Every key of collector c's GetData is an uploaded item at
\* <run-timestamp>/<node-name>/<key> with the content GetData holds for it.
AllItemsUploaded(c) ==
    LET r == CollectorGetData(c, sinks, perfData)
    IN  /\ ~r.panicked
        /\ \A k \in DOMAIN r.items :
             [producer |-> c, key |-> k, name |-> "T1-2-3/" \o HostNodeName \o "/" \o k,
              content |-> r.items[k]] \in uploads

C19_TraceItemsKeyedByCollectorName ==
    /\ \A c \in TraceNames \cap Succeeded :
         LET r == CollectorGetData(c, sinks, perfData)
         IN  ~r.panicked => DOMAIN r.items = {c}
    /\ \A u \in uploads :
         u.producer \in TraceNames =>
           u.key = u.producer /\ u.name = "T1-2-3/" \o HostNodeName \o "/" \o u.producer

-----------------------------------------------------------------------------
(* SpecExport: Export and ExportReader calls on one exporter, one after the *)
(* other, against a blob store that may fail any request.                   *)

\* The storage settings GetRuntimeInfo may have read.
StorageInfos ==
    [HostNodeName : {HostNodeName},
     CollectorList : {<<>>},
     StorageAccountName : {"", "account"},
     StorageSasKey : {"", "?sas"},
     StorageContainerName : {"", "container"},
     StorageSasKeyType : {"", "Container", "Account"}]

\* What producer.GetData() may return to Export.
ProducerData ==
    {[k \in {} |-> ""],
     [k \in {"nodes"} |-> "[nodes]"],
     [k \in {"nodes"} |-> "[nodes2]"],
     [k \in {"nodes", "pods"} |-> IF k = "nodes" THEN "[nodes]" ELSE "[pods]"]}

\* The names and streams handed to ExportReader.
ReaderNames == {"zip", "nodes"}

ReaderContents == {"[zip]"}

\* The blob name ExportReader computes (line 170).
ReaderBlobName(ri, name) ==
    Join(Replace(CreationTime, ":", "-"), "") \o "/" \o ri.HostNodeName \o "/" \o name

\* createContainerURL sends the create-container request: the settings are
\* there, the URL parses and the key type is not one of storageKeyTypes.
IssuesCreate(ri, outcome) ==
    /\ StorageConfigured(ri)
    /\ outcome # "badUrl"
    /\ ri.StorageSasKeyType \notin storageKeyTypes

\* An upload that leaves a blob that exists as it is.
PutBlobKeepsFirst(store, name, content) == store @@ (name :> content)

\* UploadStreamToBlockBlob, succeeding: the blob of that name is the content.
PutBlob(store, name, content) == (name :> content) @@ store

\* An upload loop that goes on to the next item after a failed upload.
RemainingAll(todo, key, ok) == todo \ {key}

\* The items Export still ranges over after the upload of key: a failed
\* upload returns (line 157).
Remaining(todo, key, ok) == IF ok THEN todo \ {key} ELSE {}

\* The error an upload failure makes the call return: Export wraps it with
\* the item's key, ExportReader returns it as it is.
UploadError(op, key) ==
    IF op = "Export" THEN "append file " \o key \o " to blob: cause" ELSE "cause"

ExportCalled(items) ==
    /\ xpc = "idle"
    /\ Len(xlog) < MaxExports
    /\ xcall' = [op |-> "Export", items |-> items, todo |-> DOMAIN items, err |-> "nil",
                 start |-> Len(net)]
    /\ xpc' = "createContainerURL"
    /\ UNCHANGED <<runtimeInfo, blobs, containerExists, net, xlog>>

ExportReaderCalled(name, content) ==
    /\ xpc = "idle"
    /\ Len(xlog) < MaxExports
    /\ xcall' = [op |-> "ExportReader", items |-> (name :> content), todo |-> {name},
                 err |-> "nil", start |-> Len(net)]
    /\ xpc' = "createContainerURL"
    /\ UNCHANGED <<runtimeInfo, blobs, containerExists, net, xlog>>

\* createContainerURL, called first by both (lines 147-150, 165-168).
CreateContainerURL ==
    /\ xpc = "createContainerURL"
    /\ \E outcome \in CreateOutcomes :
         LET err == createContainerURL(runtimeInfo, outcome)
             sent == IssuesCreate(runtimeInfo, outcome)
         IN  /\ sent => (outcome = "created" <=> ~containerExists)
                        \/ outcome \in {"storageError", "error"}
             /\ sent /\ outcome = "alreadyExists" => containerExists
             /\ net' = IF sent
                       THEN Append(net, [op |-> "create", name |-> runtimeInfo.StorageContainerName,
                                         key |-> "", ok |-> outcome = "created",
                                         outcome |-> outcome])
                       ELSE net
             /\ containerExists' = (containerExists \/ (sent /\ outcome = "created"))
             /\ xcall' = [xcall EXCEPT !.err = err, !.todo = IF err = "nil" THEN @ ELSE {}]
             /\ xpc' = IF err = "nil" /\ xcall.todo # {} THEN "uploading" ELSE "returning"
    /\ UNCHANGED <<runtimeInfo, blobs, xlog>>

\* One turn of Export's loop over the items, or ExportReader's upload.
UploadStreamToBlockBlob(key) ==
    /\ xpc = "uploading"
    /\ key \in xcall.todo
    /\ \E ok \in BOOLEAN :
         LET name == IF xcall.op = "Export" THEN BlobName(runtimeInfo, key)
                     ELSE ReaderBlobName(runtimeInfo, key)
             todo == Remaining(xcall.todo, key, ok)
         IN  /\ net' = Append(net, [op |-> "upload", name |-> name, key |-> key, ok |-> ok,
                                    outcome |-> xcall.items[key]])
             /\ blobs' = IF ok THEN PutBlob(blobs, name, xcall.items[key]) ELSE blobs
             /\ xcall' = [xcall EXCEPT !.todo = todo,
                                       !.err = IF ok \/ @ # "nil" THEN @
                                               ELSE UploadError(xcall.op, key)]
             /\ xpc' = IF todo = {} THEN "returning" ELSE "uploading"
    /\ UNCHANGED <<runtimeInfo, containerExists, xlog>>

\* The call returns its error.
ExportReturns ==
    /\ xpc = "returning"
    /\ xlog' = Append(xlog, [op |-> xcall.op, items |-> xcall.items, err |-> xcall.err,
                             start |-> xcall.start, end |-> Len(net)])
    /\ xcall' = NoCall
    /\ xpc' = "idle"
    /\ UNCHANGED <<runtimeInfo, blobs, containerExists, net>>

NextExport ==
    \/ \E items \in ProducerData :
         ExportCalled(items) /\ UNCHANGED <<sinkVars, collectVars, passVars, envVars, remoteVars, auxVars>>
    \/ \E name \in ReaderNames, content \in ReaderContents :
         ExportReaderCalled(name, content)
         /\ UNCHANGED <<sinkVars, collectVars, passVars, envVars, remoteVars, auxVars>>
    \/ CreateContainerURL
         /\ UNCHANGED <<sinkVars, collectVars, phase, status, calls, checkErr, errs, sinks,
                        perfData, uploads, exportErrs, panicked, envVars, remoteVars, auxVars>>
    \/ \E key \in DOMAIN xcall.items :
         UploadStreamToBlockBlob(key)
         /\ UNCHANGED <<sinkVars, collectVars, phase, status, calls, checkErr, errs, sinks,
                        perfData, uploads, exportErrs, panicked, envVars, remoteVars, auxVars>>
    \/ ExportReturns
         /\ UNCHANGED <<sinkVars, collectVars, phase, status, calls, checkErr, errs, sinks,
                        perfData, uploads, exportErrs, panicked, envVars, remoteVars, auxVars>>

InitStorage ==
    /\ InitSink
    /\ InitCollect
    /\ InitPass
    /\ InitExport
    /\ InitRemote
    /\ InitAux
    /\ InitEnv
    /\ self = "ig-dnstrace"
    /\ runtimeInfo \in StorageInfos

SpecExport == InitStorage /\ [][NextExport]_vars

-----------------------------------------------------------------------------
(* Claims checked under SpecExport. *)

\* The requests of the call that xlog entry e records, by their place in net.
RequestsOf(e) == (e.start + 1) .. e.end

UploadsOf(e) == {i \in RequestsOf(e) : net[i].op = "upload"}

CreatesOf(e) == {i \in RequestsOf(e) : net[i].op = "create"}

FailedUploadsOf(e) == {i \in UploadsOf(e) : ~net[i].ok}

\* C12: in an Export call at most one upload fails and it is the last request
\* of the call; the call then returns "append file <key> to blob: <cause>"
\* for that item's key, one error and not several; and the items uploaded
\* before it are in the blob store when the call returns.
C12_ExportFailsFast ==
    /\ xpc # "idle" =>
         \A i \in (xcall.start + 1) .. Len(net) :
           (net[i].op = "upload" /\ ~net[i].ok) => i = Len(net) /\ xpc = "returning"
    /\ \A n \in DOMAIN xlog :
         LET e == xlog[n]
         IN  e.op = "Export" =>
               /\ Cardinality(FailedUploadsOf(e)) <= 1
               /\ \A i \in FailedUploadsOf(e) :
                    /\ i = e.end
                    /\ e.err = "append file " \o net[i].key \o " to blob: cause"
               /\ (n = Len(xlog) /\ xpc = "idle") =>
                    \A i \in UploadsOf(e) :
                      net[i].ok => /\ net[i].name \in DOMAIN blobs
                                   /\ blobs[net[i].name] = e.items[net[i].key]

\* C12's case: an Export of two items has returned, the first upload had
\* succeeded and the second failed.
C12_Witness ==
    /\ xpc = "idle"
    /\ xlog # <<>>
    /\ LET e == xlog[Len(xlog)]
       IN  /\ e.op = "Export"
           /\ Cardinality(UploadsOf(e)) = 2
           /\ Cardinality(FailedUploadsOf(e)) = 1
           /\ Cardinality(DOMAIN e.items) = 2

\* C14: with the storage account name, the SAS key or the container name
\* empty, every Export and ExportReader call returns "Storage not
\* configured." and no request at all goes to the blob store: no container
\* creation, no upload.
C14_NotConfiguredNoRequest ==
    (\/ runtimeInfo.StorageAccountName = ""
     \/ runtimeInfo.StorageSasKey = ""
     \/ runtimeInfo.StorageContainerName = "") =>
        /\ net = <<>>
        /\ DOMAIN blobs = {}
        /\ ~containerExists
        /\ xpc \notin {"create", "uploading"}
        /\ xpc = "returning" => xcall.err = "Storage not configured."
        /\ \A n \in DOMAIN xlog :
             xlog[n].err = "Storage not configured." /\ xlog[n].start = xlog[n].end

\* C14's case: the account name is empty, an Export with items and an
\* ExportReader call have both returned.
C14_Witness ==
    /\ runtimeInfo.StorageAccountName = ""
    /\ runtimeInfo.StorageSasKey # ""
    /\ runtimeInfo.StorageContainerName # ""
    /\ \E n \in DOMAIN xlog : xlog[n].op = "Export" /\ DOMAIN xlog[n].items # {}
    /\ \E n \in DOMAIN xlog : xlog[n].op = "ExportReader"

\* C14's other cases: the SAS key alone is empty, the container name alone.
C14_WitnessSasKey ==
    /\ runtimeInfo.StorageAccountName # ""
    /\ runtimeInfo.StorageSasKey = ""
    /\ runtimeInfo.StorageContainerName # ""
    /\ Len(xlog) = 2

C14_WitnessContainerName ==
    /\ runtimeInfo.StorageAccountName # ""
    /\ runtimeInfo.StorageSasKey # ""
    /\ runtimeInfo.StorageContainerName = ""
    /\ Len(xlog) = 2

CreationErrors ==
    {"create container with storage error: cause", "create container: cause"}

\* The call of an xlog entry passed createContainerURL and went on to its
\* uploads: its error is nil or an upload's, and with items to upload it
\* sent an upload.
UploadsProceeded(e) ==
    /\ e.err \in {"nil"} \cup {UploadError(e.op, k) : k \in DOMAIN e.items}
    /\ DOMAIN e.items # {} => UploadsOf(e) # {}

\* C15: a call whose create-container request was answered "already exists"
\* goes on to its uploads like one that created the container; a call whose
\* request failed otherwise returns the creation error and sends no upload.
\* The container is created once: every later call's request is answered
\* "already exists" (or fails), and passes the creation step all the same.
C15_CreateAlreadyExistsIsSuccess ==
    /\ \A n \in DOMAIN xlog :
         LET e == xlog[n]
         IN  \A i \in CreatesOf(e) :
               /\ net[i].outcome \in {"created", "alreadyExists"} => UploadsProceeded(e)
               /\ net[i].outcome = "storageError" =>
                    e.err = "create container with storage error: cause" /\ UploadsOf(e) = {}
               /\ net[i].outcome = "error" =>
                    e.err = "create container: cause" /\ UploadsOf(e) = {}
    /\ xpc = "uploading" =>
         \A i \in (xcall.start + 1) .. Len(net) :
           net[i].op = "create" => net[i].outcome \in {"created", "alreadyExists"}
    /\ \A i, j \in DOMAIN net :
         (i < j /\ net[i].op = "create" /\ net[j].op = "create"
          /\ net[i].outcome \in {"created", "alreadyExists"}) =>
            net[j].outcome # "created"
    /\ (\E i \in DOMAIN net : net[i].op = "create" /\ net[i].outcome = "created")
         <=> containerExists

\* C15's case: two Export calls with items have returned nil; the first
\* created the container, the second was answered "already exists".
C15_Witness ==
    /\ Len(xlog) = 2
    /\ \A n \in DOMAIN xlog :
         xlog[n].op = "Export" /\ xlog[n].err = "nil" /\ UploadsOf(xlog[n]) # {}
    /\ \E i \in CreatesOf(xlog[1]) : net[i].outcome = "created"
    /\ \E i \in CreatesOf(xlog[2]) : net[i].outcome = "alreadyExists"

\* C15's other cases: the creation failed, for ExportReader and for Export.
C15_WitnessCreationFailed ==
    /\ \E n \in DOMAIN xlog :
         /\ xlog[n].op = "ExportReader"
         /\ xlog[n].err = "create container: cause"
    /\ \E n \in DOMAIN xlog :
         /\ xlog[n].op = "Export"
         /\ DOMAIN xlog[n].items # {}
         /\ xlog[n].err = "create container with storage error: cause"

\* Reading the blob store at the documented path of an item key.
ReadBack(key) == blobs["T1-2-3/" \o HostNodeName \o "/" \o key]

\* Request i is the last upload sent to its blob name.
LastUploadTo(i) == \A j \in DOMAIN net : (j > i /\ net[j].op = "upload") => net[j].name # net[i].name

\* C16: after an Export or ExportReader call returned nil, every item of the
\* call was uploaded, and an item's blob, read back at the path of its key,
\* is the item's content, as long as no later upload targets that path.
C16_RoundTrip ==
    \A n \in DOMAIN xlog :
      LET e == xlog[n]
      IN  e.err = "nil" =>
            /\ \A k \in DOMAIN e.items : \E i \in UploadsOf(e) : net[i].key = k /\ net[i].ok
            /\ \A i \in UploadsOf(e) :
                 LastUploadTo(i) => ReadBack(net[i].key) = e.items[net[i].key]

\* C16's case: two Export calls wrote the same item key with different
\* contents and both returned nil; the blob is the second content.
C16_Witness ==
    /\ Len(xlog) = 2
    /\ \A n \in DOMAIN xlog : xlog[n].op = "Export" /\ xlog[n].err = "nil"
    /\ "nodes" \in DOMAIN xlog[1].items
    /\ "nodes" \in DOMAIN xlog[2].items
    /\ xlog[1].items["nodes"] # xlog[2].items["nodes"]
    /\ ReadBack("nodes") = xlog[2].items["nodes"]

\* C16's other case: an ExportReader call returned nil and its blob reads
\* back as the stream.
C16_WitnessReader ==
    /\ Len(xlog) = 2
    /\ xlog[1].op = "Export" /\ xlog[1].err = "nil" /\ DOMAIN xlog[1].items # {}
    /\ xlog[2].op = "ExportReader" /\ xlog[2].err = "nil"
    /\ ReadBack("zip") = "[zip]"

\* C17: Export and ExportReader name a blob alike: the creation time with
\* every ":" turned into "-", "/", the host node name, "/", the item's name.
\* No ":" is left in the first segment, and every upload of the exporter
\* goes under the same <run-timestamp>/<node-name>/ prefix.
C17_SameBlobPath ==
    /\ \A i \in DOMAIN net :
         net[i].op = "upload" => net[i].name = "T1-2-3/" \o HostNodeName \o "/" \o net[i].key
    /\ \A k \in ReaderNames \cup UNION {DOMAIN items : items \in ProducerData} :
         /\ BlobName(runtimeInfo, k) = ReaderBlobName(runtimeInfo, k)
         /\ BlobName(runtimeInfo, k) = "T1-2-3/" \o runtimeInfo.HostNodeName \o "/" \o k
    /\ LET stamp == Replace(CreationTime, ":", "-")
       IN  /\ Len(stamp) = Len(CreationTime)
           /\ \A i \in DOMAIN stamp :
                /\ stamp[i] # ":"
                /\ stamp[i] = IF CreationTime[i] = ":" THEN "-" ELSE CreationTime[i]

\* C17's case: an Export and an ExportReader call of one exporter have both
\* uploaded, items of different names.
C17_Witness ==
    /\ Len(xlog) = 2
    /\ \E i \in UploadsOf(xlog[1]), j \in UploadsOf(xlog[2]) :
         /\ xlog[1].op # xlog[2].op
         /\ net[i].ok /\ net[j].ok
         /\ net[i].key # net[j].key

\* The create-container request of a returned call is its first request.
CreatesFirst(e) ==
    /\ Cardinality(CreatesOf(e)) = 1
    /\ CreatesOf(e) = {e.start + 1}
    /\ \A c \in CreatesOf(e), u \in UploadsOf(e) : c < u

\* The call returned before it had a container URL: the storage settings
\* are not all there, or the URL did not parse.
ReturnedBeforeCreate(e) ==
    \/ e.err = "Storage not configured."
    \/ e.err = "build blob container url: cause"

\* With the key type Container no call sends a create-container request.
C35_ContainerKeyNeverCreates ==
    runtimeInfo.StorageSasKeyType = "Container" =>
        \A i \in DOMAIN net : net[i].op # "create"

\* C35 as stated: with the SAS key type Container an Export or ExportReader
\* call sends no create-container request and its requests are uploads; with
\* any other key type, the empty one included, each call sends exactly one
\* create-container request, before any upload.
C35_OneCreatePerCallUnlessContainerKey ==
    /\ C35_ContainerKeyNeverCreates
    /\ runtimeInfo.StorageSasKeyType # "Container" =>
          \A n \in DOMAIN xlog : CreatesFirst(xlog[n])

\* C35, amended: with the SAS key type Container a call sends no
\* create-container request; with any other key type a call that has its
\* storage settings and whose URL parses sends exactly one, as its first
\* request and before any upload, and a call that returns for missing
\* settings or for the URL sends none.
C35_OneCreatePerConfiguredCall ==
    /\ C35_ContainerKeyNeverCreates
    /\ runtimeInfo.StorageSasKeyType # "Container" =>
          \A n \in DOMAIN xlog :
              IF ReturnedBeforeCreate(xlog[n])
              THEN RequestsOf(xlog[n]) = {}
              ELSE CreatesFirst(xlog[n])
    /\ \A n \in DOMAIN xlog :
          ReturnedBeforeCreate(xlog[n]) <=>
              \/ ~StorageConfigured(runtimeInfo)
              \/ xlog[n].err = "build blob container url: cause"

\* C35's case: with the key type Container an Export of two items has
\* returned with two uploads and no create; with another key type, not the
\* empty one, an Export and an ExportReader have returned, each with its
\* create before its uploads.
C35_Witness ==
    /\ runtimeInfo.StorageSasKeyType = "Container"
    /\ \E n \in DOMAIN xlog :
          /\ xlog[n].op = "Export"
          /\ Cardinality(UploadsOf(xlog[n])) = 2
          /\ CreatesOf(xlog[n]) = {}

C35_WitnessOtherKeyType ==
    /\ runtimeInfo.StorageSasKeyType = "Account"
    /\ \E m, n \in DOMAIN xlog :
          /\ xlog[m].op = "Export" /\ xlog[n].op = "ExportReader"
          /\ CreatesFirst(xlog[m]) /\ CreatesFirst(xlog[n])
          /\ UploadsOf(xlog[m]) # {} /\ UploadsOf(xlog[n]) # {}

C35_WitnessEmptyKeyType ==
    /\ runtimeInfo.StorageSasKeyType = ""
    /\ \E n \in DOMAIN xlog : CreatesFirst(xlog[n]) /\ xlog[n].err = "nil"

\* C25: the items of two producers exported in one run do not overwrite each
\* other: once two Export calls, each for its producer's data, have both
\* returned nil, every item of each of them reads back with its content at
\* the path of its key, also when the two producers use the same key.
C25_ProducersDoNotOverwrite ==
    (/\ xpc = "idle"
     /\ Len(xlog) = 2
     /\ \A n \in DOMAIN xlog : xlog[n].op = "Export" /\ xlog[n].err = "nil") =>
        \A n \in DOMAIN xlog :
          \A k \in DOMAIN xlog[n].items : ReadBack(k) = xlog[n].items[k]

-----------------------------------------------------------------------------
(* SpecRuntime: GetRuntimeInfo, called once in any environment.             *)

\* os.Getenv: the value of the variable, empty when it is not set.
Getenv(e, name) == IF e[name].set THEN e[name].value ELSE <<>>

\* strings.Fields from position i on, word being the characters of the field
\* begun.
RECURSIVE FieldsFrom(_, _, _)
FieldsFrom(chars, i, word) ==
    IF i > Len(chars)
    THEN IF word = <<>> THEN <<>> ELSE <<Join(word, "")>>
    ELSE IF chars[i] = " "
    THEN IF word = <<>> THEN FieldsFrom(chars, i + 1, <<>>)
         ELSE <<Join(word, "")>> \o FieldsFrom(chars, i + 1, <<>>)
    ELSE FieldsFrom(chars, i + 1, Append(word, chars[i]))

\* strings.Fields: the words between the white space.
Fields(chars) == FieldsFrom(chars, 1, <<>>)

\* A GetRuntimeInfo that reads the Linux list on every OS.
AlwaysLinuxLogs(os) == "DIAGNOSTIC_NODELOGS_LIST_LINUX"

\* The variable the node log paths are read from (lines 38-42).
NodeLogsVariable(os) ==
    IF os = "linux" THEN "DIAGNOSTIC_NODELOGS_LIST_LINUX" ELSE "DIAGNOSTIC_NODELOGS_LIST_WINDOWS"

\* GetRuntimeInfo: the RuntimeInfo and the error it returns.
GetRuntimeInfo(e, os) ==
    LET hostName == Getenv(e, "HOST_NODE_NAME")
    IN  IF Len(hostName) = 0
        THEN [called |-> TRUE, isNil |-> TRUE, info |-> ZeroRuntimeInfo,
              err |-> "HOST_NODE_NAME value not set for container."]
        ELSE [called |-> TRUE, isNil |-> FALSE,
              info |-> [OSIdentifier |-> os,
                        HostNodeName |-> Join(hostName, ""),
                        CollectorList |-> Fields(Getenv(e, "COLLECTOR_LIST")),
                        KubernetesObjects |-> Fields(Getenv(e, "DIAGNOSTIC_KUBEOBJECTS_LIST")),
                        NodeLogs |-> Fields(Getenv(e, NodeLogsVariable(os))),
                        ContainerLogsNamespaces |->
                            Fields(Getenv(e, "DIAGNOSTIC_CONTAINERLOGS_LIST")),
                        StorageAccountName |-> Join(Getenv(e, "AZURE_BLOB_ACCOUNT_NAME"), ""),
                        StorageSasKey |-> Join(Getenv(e, "AZURE_BLOB_SAS_KEY"), ""),
                        StorageContainerName |->
                            Join(Getenv(e, "AZURE_BLOB_CONTAINER_NAME"), ""),
                        StorageSasKeyType |->
                            Join(Getenv(e, "AZURE_STORAGE_SAS_KEY_TYPE"), "")],
              err |-> "nil"]

\* The environments the agent may be started in.
Environments ==
    [HOST_NODE_NAME : {Unset, SetTo(<<>>), SetTo(<<"n">>)},
     COLLECTOR_LIST : {Unset, SetTo(<<" ">>), SetTo(<<"a", " ", " ", "b">>)},
     DIAGNOSTIC_KUBEOBJECTS_LIST : {Unset},
     DIAGNOSTIC_NODELOGS_LIST_LINUX : {Unset, SetTo(<<"/", "l", " ", "/", "m">>)},
     DIAGNOSTIC_NODELOGS_LIST_WINDOWS : {Unset, SetTo(<<"w">>)},
     DIAGNOSTIC_CONTAINERLOGS_LIST : {Unset},
     AZURE_BLOB_ACCOUNT_NAME : {Unset, SetTo(<<"a", "c">>)},
     AZURE_BLOB_SAS_KEY : {Unset},
     AZURE_BLOB_CONTAINER_NAME : {Unset},
     AZURE_STORAGE_SAS_KEY_TYPE : {Unset}]

\* The values of runtime.GOOS.
OperatingSystems == {"linux", "windows", "darwin"}

CallGetRuntimeInfo ==
    /\ ~loaded.called
    /\ loaded' = GetRuntimeInfo(environ, GOOS)
    /\ UNCHANGED <<environ, GOOS, runtimeInfo>>

NextRuntime ==
    \/ CallGetRuntimeInfo
       /\ UNCHANGED <<sinkVars, collectVars, exportVars, phase, status, calls, checkErr, errs,
                      sinks, perfData, uploads, exportErrs, panicked, remoteVars, auxVars>>

InitProcess ==
    /\ InitSink
    /\ InitCollect
    /\ InitPass
    /\ InitExport
    /\ InitRemote
    /\ InitAux
    /\ self = "ig-dnstrace"
    /\ runtimeInfo \in {ri \in RuntimeInfos : ri.CollectorList = <<>> /\ ri.StorageAccountName = ""}
    /\ environ \in Environments
    /\ GOOS \in OperatingSystems
    /\ loaded = NotLoaded

SpecRuntime == InitProcess /\ [][NextRuntime]_vars

-----------------------------------------------------------------------------
(* Claims checked under SpecRuntime. *)

\* C20: GetRuntimeInfo returns an error, and no RuntimeInfo, exactly when
\* HOST_NODE_NAME is unset or empty; whatever else is unset or empty it
\* returns a RuntimeInfo, with empty lists and settings for what is unset;
\* NodeLogs are the words of the Linux list when the OS is linux and of the
\* Windows list on any other OS.
C20_OnlyHostNodeNameRequired ==
    loaded.called =>
      /\ loaded.err # "nil" <=>
           (~environ.HOST_NODE_NAME.set \/ environ.HOST_NODE_NAME.value = <<>>)
      /\ loaded.isNil <=> loaded.err # "nil"
      /\ loaded.err # "nil" => loaded.err = "HOST_NODE_NAME value not set for container."
      /\ loaded.err = "nil" =>
           /\ loaded.info.HostNodeName = "n"
           /\ loaded.info.OSIdentifier = GOOS
           /\ loaded.info.NodeLogs =
                IF GOOS = "linux"
                THEN IF environ.DIAGNOSTIC_NODELOGS_LIST_LINUX.set THEN <<"/l", "/m">> ELSE <<>>
                ELSE IF environ.DIAGNOSTIC_NODELOGS_LIST_WINDOWS.set THEN <<"w">> ELSE <<>>
           /\ loaded.info.CollectorList =
                IF environ.COLLECTOR_LIST = SetTo(<<"a", " ", " ", "b">>)
                THEN <<"a", "b">> ELSE <<>>
           /\ loaded.info.StorageAccountName =
                IF environ.AZURE_BLOB_ACCOUNT_NAME.set THEN "ac" ELSE ""
           /\ loaded.info.KubernetesObjects = <<>>
           /\ loaded.info.ContainerLogsNamespaces = <<>>
           /\ loaded.info.StorageSasKey = ""
           /\ loaded.info.StorageContainerName = ""
           /\ loaded.info.StorageSasKeyType = ""

\* C20's case: on Windows, with both node log lists set and everything else
\* but HOST_NODE_NAME unset, GetRuntimeInfo has returned the Windows list.
C20_Witness ==
    /\ loaded.called
    /\ loaded.err = "nil"
    /\ GOOS = "windows"
    /\ environ.DIAGNOSTIC_NODELOGS_LIST_LINUX.set
    /\ environ.DIAGNOSTIC_NODELOGS_LIST_WINDOWS.set
    /\ ~environ.COLLECTOR_LIST.set
    /\ ~environ.AZURE_BLOB_ACCOUNT_NAME.set
    /\ loaded.info.NodeLogs = <<"w">>

\* C20's other cases: HOST_NODE_NAME set to the empty string, and not set.
C20_WitnessEmptyHostName ==
    /\ loaded.called
    /\ environ.HOST_NODE_NAME = SetTo(<<>>)
    /\ loaded.isNil

C20_WitnessNoHostName ==
    /\ loaded.called
    /\ ~environ.HOST_NODE_NAME.set
    /\ loaded.isNil

-----------------------------------------------------------------------------
(* SpecWait: the pass with the trace collectors' Collect in its steps: the   *)
(* acquisitions, then collector.waiter(), then return nil with the deferred  *)
(* calls.  The attached resources are kept per collector.  The orchestrator  *)
(* and the collectors are running code, so their steps are taken when they   *)
(* can be; that a waiter returns is the environment's doing, and the         *)
(* specification assumes it of every waiter.                                 *)

\* What collector c has attached.
AttachedBy(c) == {r \in attached : r[1] = c}

\* An acquisition of Collect fails: the deferred calls close what was
\* acquired and the wrapped error is returned, the waiter not called.
InitializationFails(c) ==
    /\ c \in TraceNames
    /\ status[c] = "collecting"
    /\ \E f \in Faults(c) :
         /\ CollectError(c, f) # "nil"
         /\ CollectReturned(c, TraceCollect(sinks[c], c, f, 0).err)
    /\ UNCHANGED <<sinks, perfData, attached>>

\* Every acquisition succeeded and collector.waiter() is called (DNS line 95,
\* TCP line 164).
EnterWaiter(c) ==
    /\ c \in TraceNames
    /\ status[c] = "collecting"
    /\ \E rs \in AcquiredBeforeWaiter(c) : attached' = attached \cup ({c} \X rs)
    /\ status' = [status EXCEPT ![c] = "waiting"]
    /\ UNCHANGED <<runtimeInfo, phase, calls, checkErr, errs, sinks, perfData, uploads,
                   exportErrs, panicked>>

\* The waiter returns: return nil (DNS line 97, TCP line 166) and the
\* deferred calls. The probe reported n events while it was attached.
LeaveWaiter(c) ==
    /\ c \in TraceNames
    /\ status[c] = "waiting"
    /\ \E n \in 0 .. MaxEvents :
         LET r == TraceCollect(sinks[c], c, "none", n)
         IN  /\ sinks' = [sinks EXCEPT ![c] = r.sink]
             /\ CollectReturned(c, r.err)
    /\ attached' = attached \ AttachedBy(c)
    /\ UNCHANGED perfData

WaitUnchanged ==
    UNCHANGED <<sinkVars, exportVars, envVars, remoteVars, auxVars, self, cpc, fault, defers,
                acquired, closed, result, waited, runs, phases>>

\* The steps of the orchestrator and of the collectors' own code.
ProgramStep ==
    \/ \E c \in Collectors : RunCheckSupported(c) /\ UNCHANGED attached /\ WaitUnchanged
    \/ \E c \in Collectors : RunCollect(c) /\ UNCHANGED attached /\ WaitUnchanged
    \/ \E c \in TraceNames : InitializationFails(c) /\ WaitUnchanged
    \/ \E c \in TraceNames : EnterWaiter(c) /\ WaitUnchanged
    \/ SystemPerfCollectReturns /\ UNCHANGED attached /\ WaitUnchanged
    \/ CollectionOver /\ UNCHANGED attached /\ WaitUnchanged
    \/ \E c \in Collectors : RunExport(c) /\ UNCHANGED attached /\ WaitUnchanged
    \/ PassOver /\ UNCHANGED attached /\ WaitUnchanged

\* A waiter returns.
WaiterStep(c) == LeaveWaiter(c) /\ WaitUnchanged

NextWait ==
    \/ \E c \in Collectors : RunCheckSupported(c) /\ UNCHANGED attached /\ WaitUnchanged
    \/ \E c \in Collectors : RunCollect(c) /\ UNCHANGED attached /\ WaitUnchanged
    \/ \E c \in TraceNames : InitializationFails(c) /\ WaitUnchanged
    \/ \E c \in TraceNames : EnterWaiter(c) /\ WaitUnchanged
    \/ \E c \in TraceNames : LeaveWaiter(c) /\ WaitUnchanged
    \/ SystemPerfCollectReturns /\ UNCHANGED attached /\ WaitUnchanged
    \/ CollectionOver /\ UNCHANGED attached /\ WaitUnchanged
    \/ \E c \in Collectors : RunExport(c) /\ UNCHANGED attached /\ WaitUnchanged
    \/ PassOver /\ UNCHANGED attached /\ WaitUnchanged

\* The pass of a run whose COLLECTOR_LIST is empty.
InitWait ==
    /\ InitSink
    /\ InitCollect
    /\ InitPass
    /\ InitExport
    /\ InitRemote
    /\ InitAux
    /\ InitEnv
    /\ self = "ig-dnstrace"
    /\ runtimeInfo \in {ri \in RuntimeInfos : ri.CollectorList = <<>>}

SpecWait ==
    /\ InitWait
    /\ [][NextWait]_vars
    /\ WF_vars(ProgramStep)
    /\ \A c \in TraceNames : WF_vars(WaiterStep(c))

InCollect(c) == status[c] \in {"collecting", "waiting"}

CollectOver(c) == status[c] \in {"collected", "failed", "exported"}

\* Once in its waiter a Collect has everything attached, the pass is still
\* collecting, and the Collect leaves the waiter only by returning nil with
\* everything closed.
C23_WaiterIsTheOnlyWayOut ==
    /\ [](\A c \in TraceNames :
            /\ status[c] = "waiting" =>
                  /\ {r[2] : r \in AttachedBy(c)} \in AcquiredBeforeWaiter(c)
                  /\ phase = "collecting"
            /\ InCollect(c) => phase = "collecting"
            /\ status[c] # "waiting" => AttachedBy(c) = {})
    /\ [][\A c \in TraceNames :
            (status[c] = "waiting" /\ status'[c] # "waiting")
            => status'[c] = "collected" /\ AttachedBy(c)' = {}]_vars

\* With every waiter returning, every Collect returns.
C23_EveryCollectReturns == \A c \in TraceNames : InCollect(c) ~> CollectOver(c)

\* C23: a Collect returns when its waiter returns and not otherwise: with
\* every waiter eventually returning every Collect eventually returns and
\* the pass eventually completes; a Collect in its waiter keeps its resources
\* attached and keeps the pass from its export until the waiter returns.
C23_WaiterBoundsCollect ==
    /\ C23_WaiterIsTheOnlyWayOut
    /\ C23_EveryCollectReturns
    /\ <>(phase = "done")

-----------------------------------------------------------------------------
(* SpecRemote: the remote trace collector (pkg/collector/inspektor-gadget): *)
(* collect(gadgetName) and runTraceCommandOnPod, statement by statement,    *)
(* with the goroutine that streams the trace output.  collectChan is an     *)
(* unbuffered channel: a send blocks until the caller receives, so the      *)
(* channel has no state of its own and a goroutine at one of its sends is   *)
(* blocked there, offering the value.  The environment decides which step   *)
(* of a call fails, whether the delete succeeds and when the stream ends.   *)

GadgetNames == {"dns", "tcptop"}

\* What the environment may make fail in one collect call.
RemoteFaults ==
    {"none", "addScheme", "newClient", "create", "clientset", "podName", "executor", "stream"}

\* getTraceName (lines 132-136)
getTraceName(gadgetName) == gadgetName \o "-" \o HostNodeName

\* A data key without the prefix.
BareKey(gadgetName) == gadgetName

\* fmt.Sprintf("gadget-%s", gadgetName) (line 98)
ResultKey(gadgetName) == "gadget-" \o gadgetName

\* The trimmed stdout and stderr of the stream (line 93).
StreamOutput(gadgetName) == "out(" \o gadgetName \o ")"

\* A goroutine that goes on after the send of an error.
GoroutineFallsThrough(at) == IF at = "sendExecutorError" THEN "stream" ELSE "store"

\* The return that follows the send of an error (lines 82, 89): the
\* goroutine ends.
GoroutineAfterError(at) == "done"

Sends == {"sendExecutorError", "sendStreamError", "sendNil"}

\* The value a goroutine blocked in a send offers on collectChan.
Offered(at) ==
    CASE at = "sendExecutorError" -> "error creating SPDYExecutor for pod exec: cause"
      [] at = "sendStreamError" -> "error executing command on pod: cause"
      [] OTHER -> "nil"

Did(what) == Append(rlog, what)

\* collect(gadgetName) is called (line 161).
collectCalled(g) ==
    /\ rpc \in {"idle", "returned"}
    /\ rruns < MaxCollects
    /\ rruns' = rruns + 1
    /\ \E f \in RemoteFaults : rcall' = [gadgetName |-> g, fault |-> f, err |-> "nil"]
    /\ rpc' = "addToScheme"
    /\ gpc' = "none"
    /\ rlog' = <<>>
    /\ UNCHANGED <<rdata, traces>>

\* A return of collect with an error, from a step before the goroutine.
RemoteReturn(err) ==
    /\ rcall' = [rcall EXCEPT !.err = err]
    /\ rpc' = "returned"

\* gadgetv1alpha1.AddToScheme (lines 165-168)
AddToScheme ==
    /\ rpc = "addToScheme"
    /\ IF rcall.fault = "addScheme"
       THEN RemoteReturn("could not add gadget scheme: cause")
       ELSE rpc' = "newClient" /\ UNCHANGED rcall
    /\ UNCHANGED <<gpc, rdata, traces, rlog, rruns>>

\* runtimeclient.New (lines 170-175)
NewClient ==
    /\ rpc = "newClient"
    /\ IF rcall.fault = "newClient"
       THEN RemoteReturn("could not create rest client for gadgets: cause")
       ELSE rpc' = "create" /\ UNCHANGED rcall
    /\ UNCHANGED <<gpc, rdata, traces, rlog, rruns>>

\* gadgetClient.Create (lines 179-199): the cluster refuses a Trace whose
\* name is taken.
CreateTrace ==
    /\ rpc = "create"
    /\ LET name == getTraceName(rcall.gadgetName)
       IN  IF rcall.fault = "create" \/ name \in traces
           THEN /\ RemoteReturn("could not create trace " \o name \o ": cause")
                /\ UNCHANGED <<traces, rlog>>
           ELSE /\ traces' = traces \cup {name}
                /\ rlog' = Did("created")
                /\ rpc' = "newForConfig"
                /\ UNCHANGED rcall
    /\ UNCHANGED <<gpc, rdata, rruns>>

\* runTraceCommandOnPod: kubernetes.NewForConfig (lines 43-46); collect
\* returns the error it gets (lines 203-207).
NewForConfig ==
    /\ rpc = "newForConfig"
    /\ IF rcall.fault = "clientset"
       THEN RemoteReturn("getting access to K8S failed: cause")
       ELSE rpc' = "getGadgetPodName" /\ UNCHANGED rcall
    /\ UNCHANGED <<gpc, rdata, traces, rlog, rruns>>

\* runTraceCommandOnPod: getGadgetPodName (lines 48-51)
getGadgetPodName ==
    /\ rpc = "getGadgetPodName"
    /\ IF rcall.fault = "podName"
       THEN RemoteReturn("failed to get gadget pod name: cause")
       ELSE rpc' = "go" /\ UNCHANGED rcall
    /\ UNCHANGED <<gpc, rdata, traces, rlog, rruns>>

\* make(chan error) and the go statement (lines 56-57).
Go ==
    /\ rpc = "go"
    /\ gpc' = "newSPDYExecutor"
    /\ rpc' = "sleep"
    /\ UNCHANGED <<rcall, rdata, traces, rlog, rruns>>

\* time.Sleep(collector.collectingPeriod) (line 104)
Sleep ==
    /\ rpc = "sleep"
    /\ rlog' = Did("slept")
    /\ rpc' = "delete"
    /\ UNCHANGED <<gpc, rcall, rdata, traces, rruns>>

\* gadgetClient.Delete (lines 106-109): a failure is logged (line 108) and
\* nothing else.
DeleteTrace ==
    /\ rpc = "delete"
    /\ \E ok \in BOOLEAN :
         /\ traces' = IF ok THEN traces \ {getTraceName(rcall.gadgetName)} ELSE traces
         /\ rlog' = IF ok THEN Did("deleteAttempted")
                         ELSE Append(Did("deleteAttempted"), "logged")
    /\ rpc' = "receive"
    /\ UNCHANGED <<gpc, rcall, rdata, rruns>>

\* return <-collectChan (line 112), and collect's return of that value
\* (lines 204-209): the goroutine blocked in its send goes on.
Receive ==
    /\ rpc = "receive"
    /\ gpc \in Sends
    /\ rcall' = [rcall EXCEPT !.err = Offered(gpc)]
    /\ gpc' = IF gpc = "sendNil" THEN "done" ELSE GoroutineAfterError(gpc)
    /\ rlog' = Did("received")
    /\ rpc' = "returned"
    /\ UNCHANGED <<rdata, traces, rruns>>

\* The goroutine: remotecommand.NewSPDYExecutor (lines 79-83).
NewSPDYExecutor ==
    /\ gpc = "newSPDYExecutor"
    /\ IF rcall.fault = "executor"
       THEN gpc' = "sendExecutorError" /\ rlog' = Did("send")
       ELSE gpc' = "stream" /\ UNCHANGED rlog
    /\ UNCHANGED <<rpc, rcall, rdata, traces, rruns>>

\* The goroutine: exec.Stream returns (lines 86-90), when the remote command
\* ends.
Stream ==
    /\ gpc = "stream"
    /\ IF rcall.fault = "stream"
       THEN gpc' = "sendStreamError" /\ rlog' = Did("send")
       ELSE gpc' = "store" /\ UNCHANGED rlog
    /\ UNCHANGED <<rpc, rcall, rdata, traces, rruns>>

\* The goroutine: the output goes into collector.data and nil is sent (lines
\* 93-99).
StoreResult ==
    /\ gpc = "store"
    /\ rdata' = (ResultKey(rcall.gadgetName) :> StreamOutput(rcall.gadgetName)) @@ rdata
    /\ rlog' = Append(Did("stored"), "send")
    /\ gpc' = "sendNil"
    /\ UNCHANGED <<rpc, rcall, traces, rruns>>

NextRemote ==
    \/ \E g \in GadgetNames : collectCalled(g) /\ UNCHANGED <<sinkVars, collectVars, passVars, exportVars, envVars, auxVars>>
    \/ AddToScheme /\ UNCHANGED <<sinkVars, collectVars, passVars, exportVars, envVars, auxVars>>
    \/ NewClient /\ UNCHANGED <<sinkVars, collectVars, passVars, exportVars, envVars, auxVars>>
    \/ CreateTrace /\ UNCHANGED <<sinkVars, collectVars, passVars, exportVars, envVars, auxVars>>
    \/ NewForConfig /\ UNCHANGED <<sinkVars, collectVars, passVars, exportVars, envVars, auxVars>>
    \/ getGadgetPodName /\ UNCHANGED <<sinkVars, collectVars, passVars, exportVars, envVars, auxVars>>
    \/ Go /\ UNCHANGED <<sinkVars, collectVars, passVars, exportVars, envVars, auxVars>>
    \/ Sleep /\ UNCHANGED <<sinkVars, collectVars, passVars, exportVars, envVars, auxVars>>
    \/ DeleteTrace /\ UNCHANGED <<sinkVars, collectVars, passVars, exportVars, envVars, auxVars>>
    \/ Receive /\ UNCHANGED <<sinkVars, collectVars, passVars, exportVars, envVars, auxVars>>
    \/ NewSPDYExecutor /\ UNCHANGED <<sinkVars, collectVars, passVars, exportVars, envVars, auxVars>>
    \/ Stream /\ UNCHANGED <<sinkVars, collectVars, passVars, exportVars, envVars, auxVars>>
    \/ StoreResult /\ UNCHANGED <<sinkVars, collectVars, passVars, exportVars, envVars, auxVars>>

\* One remote trace collector as constructed; no pass is run.
InitGadget ==
    /\ InitSink
    /\ InitCollect
    /\ InitPass
    /\ InitExport
    /\ InitRemote
    /\ InitAux
    /\ InitEnv
    /\ self = "ig-dnstrace"
    /\ runtimeInfo \in {ri \in RuntimeInfos : ri.CollectorList = <<>> /\ ri.StorageAccountName = ""}

SpecRemote == InitGadget /\ [][NextRemote]_vars

-----------------------------------------------------------------------------
(* Claims checked under SpecRemote. *)

\* The place of the first entry what in the history of the call, 0 when
\* there is none.
At(what) ==
    IF \E i \in DOMAIN rlog : rlog[i] = what
    THEN CHOOSE i \in DOMAIN rlog : rlog[i] = what /\ \A j \in 1 .. i - 1 : rlog[j] # what
    ELSE 0

\* C29: in a runTraceCommandOnPod call the goroutine executes one send and
\* the caller one receive, which comes after the sleep and the delete
\* attempt; the call returns nil exactly when the goroutine stored the output
\* under gadget-<gadgetName>, the store comes before the send that the
\* receive answers, and when the call has returned the goroutine has ended.
C29_OneResultPerStream ==
    /\ Times("send", rlog) <= 1
    /\ Times("received", rlog) <= 1
    /\ gpc = "done" <=> At("received") > 0
    /\ gpc \in Sends => Times("send", rlog) = 1 /\ At("received") = 0
    /\ At("received") > 0 =>
         /\ 0 < At("slept") /\ At("slept") < At("deleteAttempted")
         /\ At("deleteAttempted") < At("received")
         /\ 0 < At("send") /\ At("send") < At("received")
    /\ At("stored") > 0 =>
         /\ At("stored") < At("send")
         /\ ResultKey(rcall.gadgetName) \in DOMAIN rdata
         /\ rdata[ResultKey(rcall.gadgetName)] = StreamOutput(rcall.gadgetName)
    /\ (rpc = "returned" /\ At("created") > 0) =>
         /\ rcall.err = "nil" <=> At("stored") > 0
         /\ rcall.err = "nil" => "gadget-" \o rcall.gadgetName \in DOMAIN rdata
    /\ rpc \in {"idle", "returned"} => gpc \in {"none", "done"}
    /\ DOMAIN rdata \subseteq {"gadget-" \o g : g \in GadgetNames}

\* C29's case: the second collect call of the collector has returned nil,
\* for another gadget than the first, the output stored.
C29_Witness ==
    /\ rruns = 2
    /\ rpc = "returned"
    /\ rcall.err = "nil"
    /\ gpc = "done"
    /\ DOMAIN rdata = {"gadget-dns", "gadget-tcptop"}

\* C29's other cases: the stream failed, the executor could not be created;
\* the caller received the error after its delete attempt.
C29_WitnessStreamFailed ==
    /\ rpc = "returned"
    /\ rcall.err = "error executing command on pod: cause"
    /\ At("received") > 0
    /\ rdata = <<>>

C29_WitnessExecutorFailed ==
    /\ rpc = "returned"
    /\ rcall.err = "error creating SPDYExecutor for pod exec: cause"
    /\ rlog = <<"created", "send", "slept", "deleteAttempted", "received">>

\* C30: when collect returns, a delete has been attempted on the Trace
\* resource the call created.
C30_CreatedTraceDeleteAttempted ==
    (rpc = "returned" /\ At("created") > 0) => At("deleteAttempted") > 0


-----------------------------------------------------------------------------
(* SpecStreaming: SpecRemote with the scheduling of the Go runtime.  The     *)
(* caller and the goroutine are running code: a statement that can be        *)
(* executed is executed.  When exec.Stream returns is the remote command's   *)
(* doing, and nothing is assumed of it.                                      *)

\* The statements of collect and runTraceCommandOnPod in the calling
\* goroutine.
CallerStep ==
    /\ \/ AddToScheme
       \/ NewClient
       \/ CreateTrace
       \/ NewForConfig
       \/ getGadgetPodName
       \/ Go
       \/ Sleep
       \/ DeleteTrace
       \/ Receive
    /\ UNCHANGED <<sinkVars, collectVars, passVars, exportVars, envVars, auxVars>>

\* The statements of the streaming goroutine other than the wait for the
\* stream.
GoroutineStep ==
    /\ NewSPDYExecutor \/ StoreResult
    /\ UNCHANGED <<sinkVars, collectVars, passVars, exportVars, envVars, auxVars>>

SpecStreaming ==
    /\ InitGadget
    /\ [][NextRemote]_vars
    /\ WF_vars(CallerStep)
    /\ WF_vars(GoroutineStep)

\* The call is in runTraceCommandOnPod past the go statement.
Streaming == rpc \in {"sleep", "delete", "receive"}

\* The goroutine is through with its stream: it stands at a send.
StreamFinished == gpc \in Sends

\* Past the go statement the delete is attempted once, after the sleep,
\* whatever has become of the stream in the meantime.
C31_DeleteOnceAfterPeriod ==
    [](/\ Times("deleteAttempted", rlog) <= 1
       /\ At("deleteAttempted") > 0 =>
            0 < At("slept") /\ At("slept") < At("deleteAttempted")
       /\ rpc = "receive" => Times("deleteAttempted", rlog) = 1
       /\ At("received") > 0 => Times("deleteAttempted", rlog) = 1
       /\ rpc \in {"sleep", "delete"} => At("deleteAttempted") = 0)

\* A failed delete leaves the call's error as it was and leaves a log line;
\* what the call returns is what the goroutine offered.
C31_FailedDeleteOnlyLogged ==
    /\ [][(rpc = "delete" /\ rpc' # "delete") => (rpc' = "receive" /\ rcall' = rcall)]_vars
    /\ [](At("logged") > 0 =>
            /\ At("logged") = At("deleteAttempted") + 1
            /\ getTraceName(rcall.gadgetName) \in traces
            /\ rpc = "returned" =>
                 /\ rcall.err \in {Offered(s) : s \in Sends}
                 /\ rcall.err = "nil" <=> At("stored") > 0)

\* Past the go statement the call returns when the goroutine is through with
\* its stream and not before: the caller leaves its receive only with a
\* goroutine at a send.
C31_ReturnsIffStreamFinishes ==
    /\ Streaming ~> (rpc = "receive" \/ rpc = "returned")
    /\ StreamFinished ~> rpc = "returned"
    /\ [][(Streaming /\ rpc' = "returned") => (rpc = "receive" /\ StreamFinished)]_vars
    /\ []((rpc = "receive" /\ ~StreamFinished) =>
            gpc \in {"newSPDYExecutor", "stream", "store"})

\* C31: in runTraceCommandOnPod the trace delete is attempted exactly once,
\* and only after the collecting period, also when the stream has failed
\* before; a failed delete is logged and is not the returned error; the call
\* returns if and only if the goroutine gets through with its stream.
C31_DeleteOnceThenReturn ==
    /\ []((rpc = "returned" /\ At("created") > 0) => Times("deleteAttempted", rlog) = 1)
    /\ []((rpc = "returned" /\ At("created") > 0) => At("send") > 0)
    /\ C31_DeleteOnceAfterPeriod
    /\ C31_FailedDeleteOnlyLogged
    /\ C31_ReturnsIffStreamFinishes

\* The stream has failed and the caller is still in its sleep; later the
\* delete has failed, the caller has received nil and returned.
C31_StreamFailedBeforeDelete ==
    /\ rpc = "sleep"
    /\ gpc = "sendStreamError"

C31_DeleteFailedNilReturned ==
    /\ rpc = "returned"
    /\ rcall.err = "nil"
    /\ rlog = <<"created", "stored", "send", "slept", "deleteAttempted", "logged", "received">>

\* The caller waits in its receive for a stream that has not ended.
C31_BlockedInReceive ==
    /\ rpc = "receive"
    /\ gpc = "stream"
    /\ At("logged") > 0


-----------------------------------------------------------------------------
(* SpecSupport: CheckSupported of the remote trace collector, applied to a   *)
(* collector on any OS and a cluster that fails to list its CRDs or lists    *)
(* up to MaxCRDs of them.  Names are sequences of characters.                *)

\* "traces.gadget.kinvolk.io" (line 150)
GadgetCRD ==
    <<"t", "r", "a", "c", "e", "s", ".", "g", "a", "d", "g", "e", "t", ".",
      "k", "i", "n", "v", "o", "l", "k", ".", "i", "o">>

\* utils.Linux
Linux == "linux"

\* The CRD names a cluster may list: the gadget's, one that holds it in its
\* middle, one that stops a character short of it, one in another case, and
\* another resource's.
CRDNames ==
    { GadgetCRD,
      <<"x">> \o GadgetCRD \o <<"s">>,
      SubSeq(GadgetCRD, 1, Len(GadgetCRD) - 1),
      <<"T">> \o Tail(GadgetCRD),
      <<"p", "o", "d", "s">> }

\* What GetCRDUnstructuredList may answer: an error, or a list.
Clusters ==
    {[err |-> TRUE, items |-> <<>>]}
    \cup {[err |-> FALSE, items |-> l] : l \in UNION {[1 .. n -> CRDNames] : n \in 0 .. MaxCRDs}}

\* strings.HasPrefix
stringsHasPrefix(chars, substr) ==
    Len(substr) <= Len(chars) /\ SubSeq(chars, 1, Len(substr)) = substr

\* strings.Contains: substr occurs at some index of chars.
stringsContains(chars, substr) ==
    \E i \in 0 .. Len(chars) - Len(substr) : SubSeq(chars, i + 1, i + Len(substr)) = substr

\* InspektorGadgetTraceCollector.CheckSupported (lines 138-155): the error
\* returned and the listings asked of the cluster.
RemoteCheckSupported(os, cl) ==
    IF os # Linux
    THEN [err |-> "unsupported OS: " \o os, queries |-> 0]
    ELSE IF cl.err
    THEN [err |-> "error listing CRDs in cluster", queries |-> 1]
    ELSE IF \E i \in DOMAIN cl.items : stringsContains(cl.items[i], GadgetCRD)
    THEN [err |-> "nil", queries |-> 1]
    ELSE [err |-> "does not contain gadget crd", queries |-> 1]

\* CheckSupported is called on the collector.
CallCheckSupported ==
    /\ supportErr = "notCalled"
    /\ LET r == RemoteCheckSupported(osIdentifier, cluster)
       IN  /\ supportErr' = r.err
           /\ queries' = queries + r.queries
    /\ UNCHANGED <<osIdentifier, cluster>>

NextSupport ==
    \/ CallCheckSupported
       /\ UNCHANGED <<sinkVars, collectVars, passVars, exportVars, envVars, remoteVars, registry, fixtureVars>>

\* A remote trace collector on some OS, in front of some cluster.
InitOnCluster ==
    /\ InitSink
    /\ InitCollect
    /\ InitPass
    /\ InitExport
    /\ InitRemote
    /\ InitEnv
    /\ self = "ig-dnstrace"
    /\ runtimeInfo \in {ri \in RuntimeInfos : ri.CollectorList = <<>> /\ ri.StorageAccountName = ""}
    /\ osIdentifier \in OperatingSystems
    /\ cluster \in Clusters
    /\ supportErr = "notCalled"
    /\ queries = 0
    /\ InitRegistry
    /\ InitFixture

SpecSupport == InitOnCluster /\ [][NextSupport]_vars

-----------------------------------------------------------------------------
(* Claims checked under SpecSupport. *)

\* name is some characters, then the gadget's CRD name, then some characters.
HoldsGadgetCRD(name) ==
    \E before, after \in 0 .. Len(name) :
        /\ before + Len(GadgetCRD) + after = Len(name)
        /\ name = SubSeq(name, 1, before) \o GadgetCRD
                  \o SubSeq(name, Len(name) - after + 1, Len(name))

\* C32: CheckSupported of the remote trace collector returns nil if and only
\* if the OS identifier is Linux, the cluster lists its custom resource
\* definitions without error, and a listed name contains
\* traces.gadget.kinvolk.io; on another OS it fails and the cluster is not
\* asked.
C32_SupportedIffLinuxWithGadgetCRD ==
    supportErr # "notCalled" =>
        /\ supportErr = "nil" <=>
              /\ osIdentifier = "linux"
              /\ ~cluster.err
              /\ \E i \in DOMAIN cluster.items : HoldsGadgetCRD(cluster.items[i])
        /\ osIdentifier # "linux" => (supportErr # "nil" /\ queries = 0)
        /\ osIdentifier = "linux" => queries = 1

\* C32's case: supported through a name that holds the CRD name in its
\* middle, listed after another resource's.
C32_Witness ==
    /\ supportErr = "nil"
    /\ cluster.items = << <<"p", "o", "d", "s">>, <<"x">> \o GadgetCRD \o <<"s">> >>

\* C32's other cases: on Windows the cluster, which lists the CRD, was not
\* asked; on Linux the listing failed; on Linux the list only holds names
\* that are not the gadget's.
C32_WitnessWindows ==
    /\ osIdentifier = "windows"
    /\ supportErr = "unsupported OS: windows"
    /\ queries = 0
    /\ cluster.items = <<GadgetCRD>>

C32_WitnessListingFailed ==
    /\ osIdentifier = "linux"
    /\ supportErr = "error listing CRDs in cluster"
    /\ queries = 1

C32_WitnessNoGadget ==
    /\ osIdentifier = "linux"
    /\ supportErr = "does not contain gadget crd"
    /\ cluster.items = << SubSeq(GadgetCRD, 1, 23), <<"T">> \o Tail(GadgetCRD) >>


-----------------------------------------------------------------------------
(* SpecRegistry: the Collect of a trace collector with a closer look at the  *)
(* container collection: what InitContainerCollection does before it         *)
(* returns, the container events the collection reports to its subscriber    *)
(* while it is open, and its Close.  The probe's own events are left out.    *)

\* InitContainerCollection, with what it does to the container collection.
InitializeRegistry ==
    /\ InitContainerCollection
    /\ \E leaked \in BOOLEAN : registry' = InitContainerCollectionReturns(fault, leaked)

\* A deferred call runs: containerCollection.Close() ends the subscription.
CloseDeferred ==
    /\ RunDeferred
    /\ IF defers # <<>> /\ defers[NextDeferred(defers)] = "containerCollection"
       THEN registry' = [registry EXCEPT !.subscribed = FALSE, !.closed = TRUE]
       ELSE UNCHANGED registry

\* The container collection reports an added or removed container to
\* containerEventCallback (lines 61-68), which logs it.
ContainerEvent ==
    /\ registry.subscribed
    /\ registry.events < MaxContainerEvents
    /\ registry' = [registry EXCEPT !.events = @ + 1]
    /\ UNCHANGED <<sinkVars, collectVars>>

NextRegistry ==
    \/ CollectCalled /\ UNCHANGED <<passVars, exportVars, envVars, remoteVars, auxVars>>
    \/ InitializeRegistry /\ UNCHANGED <<passVars, exportVars, envVars, remoteVars, supportVars, fixtureVars>>
    \/ NewDNSTracer /\ UNCHANGED <<passVars, exportVars, envVars, remoteVars, auxVars>>
    \/ ConnectToContainerCollection /\ UNCHANGED <<passVars, exportVars, envVars, remoteVars, auxVars>>
    \/ NewCoreTracer /\ UNCHANGED <<passVars, exportVars, envVars, remoteVars, auxVars>>
    \/ NewStandardTracer /\ UNCHANGED <<passVars, exportVars, envVars, remoteVars, auxVars>>
    \/ WaiterCalled /\ UNCHANGED <<passVars, exportVars, envVars, remoteVars, auxVars>>
    \/ WaiterReturned /\ UNCHANGED <<passVars, exportVars, envVars, remoteVars, auxVars>>
    \/ CloseDeferred /\ UNCHANGED <<passVars, exportVars, envVars, remoteVars, supportVars, fixtureVars>>
    \/ ContainerEvent /\ UNCHANGED <<passVars, exportVars, envVars, remoteVars, supportVars, fixtureVars>>

\* One trace collector, DNS or TCP, as constructed.
InitAdapter ==
    /\ InitSink
    /\ InitCollect
    /\ InitPass
    /\ InitExport
    /\ InitRemote
    /\ InitAux
    /\ InitEnv
    /\ self \in TraceNames
    /\ runtimeInfo \in {ri \in RuntimeInfos : ri.CollectorList = <<>> /\ ri.StorageAccountName = ""}

SpecRegistry == InitAdapter /\ [][NextRegistry]_vars

-----------------------------------------------------------------------------
(* Claims checked under SpecRegistry. *)

\* The probes a Collect constructs.
ProbeResources == {"tracer", "conn", "coreTracer", "standardTracer"}

\* The Collect at work has called InitContainerCollection.
Initialized == cpc \notin {"idle", "init"}

\* C36: InitContainerCollection returns a usable container collection and no
\* error, or no collection and a wrapped error; when the memory-lock limit
\* cannot be raised the collection is not initialized and not subscribed; a
\* failure makes the owning Collect return a wrapped error, no probe
\* constructed; a collection initialized and then closed with no container
\* event in between gives no error and leaves no subscription and no probe
\* attached.
C36_InitContainerCollectionAllOrNothing ==
    Initialized =>
      /\ registry.collection <=> registry.err = "nil"
      /\ registry.collection => registry.initialized
      /\ registry.err # "nil" =>
           registry.err \in {"failed to remove memlock: cause",
                             "failed to initialize container collection: cause"}
      /\ registry.memlock = "failed" =>
           /\ ~registry.initializeCalled
           /\ ~registry.initialized
           /\ ~registry.subscribed
           /\ registry.events = 0
           /\ registry.err = "failed to remove memlock: cause"
      /\ registry.err # "nil" =>
           /\ cpc \in {"returning", "returned"}
           /\ result = "failed to initialize container collection: " \o registry.err
           /\ acquired = <<>>
           /\ attached = {}
           /\ ~registry.closed
      /\ (registry.closed /\ registry.events = 0) =>
           /\ registry.err = "nil"
           /\ ~registry.subscribed
           /\ "containerCollection" \notin attached
           /\ cpc = "returned" => attached = {}
           /\ acquired = <<"containerCollection">> =>
                /\ attached \cap ProbeResources = {}
                /\ result \in {"failed to start dns tracer: cause",
                               "failed to create a tracer: cause"}

\* C36's case: raising the memory-lock limit failed in the second Collect of
\* a collector and the Collect has returned.
C36_Witness ==
    /\ runs = 2
    /\ cpc = "returned"
    /\ registry.memlock = "failed"
    /\ result = "failed to initialize container collection: failed to remove memlock: cause"

\* C36's other cases: the collection was initialized and closed at once, no
\* probe constructed and no container event reported; Initialize failed; a
\* collection that reported a container event was closed after the waiter.
C36_WitnessClosedAtOnce ==
    /\ cpc = "returned"
    /\ acquired = <<"containerCollection">>
    /\ closed = <<"containerCollection">>
    /\ registry.closed
    /\ registry.events = 0

C36_WitnessInitializeFailed ==
    /\ cpc = "returned"
    /\ registry.err = "failed to initialize container collection: cause"
    /\ registry.subscribed

C36_WitnessEvent ==
    /\ cpc = "returned"
    /\ result = "nil"
    /\ registry.closed
    /\ registry.events = 1


-----------------------------------------------------------------------------
(* SpecFixture: goroutines of one test process call GetClusterFixture        *)
(* (part_003 lines 53-62), one statement a step.  once.Do runs its function  *)
(* in one goroutine and blocks the others that enter it until the function   *)
(* has returned.  The test of fixtureInstance and the reads of the return    *)
(* statement are outside once.Do: in a goroutine that has not been through   *)
(* once.Do they race with the assignment inside it, and such a read may      *)
(* give the value written or the value from before.                          *)

\* The fixture buildInstance allocates (line 120).
FixtureRef == 1

\* The steps of buildInstance that can fail (lines 131-194).
BuildFaults ==
    {"none", "dockerClient", "toolsImage", "createCluster", "loadImages", "readKubeconfig",
     "clientConfig", "clientset", "tempFile", "writeKubeconfig", "closeKubeconfig",
     "cleanup", "install"}

\* buildInstance: every return hands back the fixture allocated at line 120,
\* with the wrapped error of the step that failed (lines 133-193) or nil
\* (line 196).
buildInstance(f) ==
    [fixture |-> FixtureRef,
     err |-> CASE f = "none" -> "nil"
               [] f = "dockerClient" -> "unable to create docker client: cause"
               [] f = "toolsImage" -> "error building tools image: cause"
               [] f = "createCluster" -> "error creating cluster: cause"
               [] f = "loadImages" -> "error pulling and loading Docker images: cause"
               [] f = "readKubeconfig" -> "error reading kubeconfig: cause"
               [] f = "clientConfig" -> "error creating client config from config: cause"
               [] f = "clientset" ->
                    "failed to create client connection to kubernetes from kubeconfig: cause"
               [] f = "tempFile" -> "error creating temp file for kubeconfig: cause"
               [] f = "writeKubeconfig" -> "error creating kubeconfig file: cause"
               [] f = "closeKubeconfig" -> "error closing kubeconfig file: cause"
               [] f = "cleanup" -> "error cleaning up resources: cause"
               [] OTHER -> "error installing resources: cause"]

\* What a read of a package variable may give goroutine g: the value last
\* written, or, while g has not synchronised with the writer, the initial
\* value.
Reads(g, current, initial) == IF fsynced[g] THEN {current} ELSE {current, initial}

\* A goroutine calls GetClusterFixture.
GetClusterFixture(g) ==
    /\ fpc[g] = "idle"
    /\ fcalls[g] < MaxFixtureCalls
    /\ fcalls' = [fcalls EXCEPT ![g] = @ + 1]
    /\ fpc' = [fpc EXCEPT ![g] = "check"]
    /\ UNCHANGED <<fixtureInstance, fixtureError, once, fsynced, build, returned>>

\* if fixtureInstance == nil (line 54)
CheckInstance(g) ==
    /\ fpc[g] = "check"
    /\ \E seen \in Reads(g, fixtureInstance, NilRef) :
         fpc' = [fpc EXCEPT ![g] = IF seen = NilRef THEN "onceDo" ELSE "return"]
    /\ UNCHANGED <<fixtureInstance, fixtureError, once, fsynced, fcalls, build, returned>>

\* once.Do (line 55): the first goroutine runs the function; one that comes
\* while the function runs waits; one that comes after goes on.
OnceDo(g) ==
    /\ fpc[g] = "onceDo"
    /\ once # "running"
    /\ IF once = "new"
       THEN /\ once' = "running"
            /\ fpc' = [fpc EXCEPT ![g] = "buildInstance"]
            /\ UNCHANGED fsynced
       ELSE /\ fsynced' = [fsynced EXCEPT ![g] = TRUE]
            /\ fpc' = [fpc EXCEPT ![g] = "return"]
            /\ UNCHANGED once
    /\ UNCHANGED <<fixtureInstance, fixtureError, fcalls, build, returned>>

\* buildInstance() runs and returns (line 57, right-hand side).
BuildInstance(g) ==
    /\ fpc[g] = "buildInstance"
    /\ \E f \in BuildFaults :
         build' = [runs |-> build.runs + 1] @@ buildInstance(f)
    /\ fpc' = [fpc EXCEPT ![g] = "assignInstance"]
    /\ UNCHANGED <<fixtureInstance, fixtureError, once, fsynced, fcalls, returned>>

\* fixtureInstance, fixtureError = ... (line 57): the assignments are carried
\* out left to right, fixtureInstance first.
AssignInstance(g) ==
    /\ fpc[g] = "assignInstance"
    /\ fixtureInstance' = build.fixture
    /\ fpc' = [fpc EXCEPT ![g] = "assignError"]
    /\ UNCHANGED <<fixtureError, once, fsynced, fcalls, build, returned>>

AssignError(g) ==
    /\ fpc[g] = "assignError"
    /\ fixtureError' = build.err
    /\ fpc' = [fpc EXCEPT ![g] = "onceDone"]
    /\ UNCHANGED <<fixtureInstance, once, fsynced, fcalls, build, returned>>

\* The function has returned: once.Do marks the Once done and returns.
OnceDone(g) ==
    /\ fpc[g] = "onceDone"
    /\ once' = "done"
    /\ fsynced' = [fsynced EXCEPT ![g] = TRUE]
    /\ fpc' = [fpc EXCEPT ![g] = "return"]
    /\ UNCHANGED <<fixtureInstance, fixtureError, fcalls, build, returned>>

\* return fixtureInstance, fixtureError (line 61)
ReturnFixture(g) ==
    /\ fpc[g] = "return"
    /\ \E err \in Reads(g, fixtureError, "nil") :
         returned' = returned \cup {[fixture |-> fixtureInstance, err |-> err]}
    /\ fpc' = [fpc EXCEPT ![g] = "idle"]
    /\ UNCHANGED <<fixtureInstance, fixtureError, once, fsynced, fcalls, build>>

NextFixture ==
    \/ \E g \in Goroutines : GetClusterFixture(g) /\ UNCHANGED <<sinkVars, collectVars, passVars, exportVars, envVars, remoteVars, supportVars, registry>>
    \/ \E g \in Goroutines : CheckInstance(g) /\ UNCHANGED <<sinkVars, collectVars, passVars, exportVars, envVars, remoteVars, supportVars, registry>>
    \/ \E g \in Goroutines : OnceDo(g) /\ UNCHANGED <<sinkVars, collectVars, passVars, exportVars, envVars, remoteVars, supportVars, registry>>
    \/ \E g \in Goroutines : BuildInstance(g) /\ UNCHANGED <<sinkVars, collectVars, passVars, exportVars, envVars, remoteVars, supportVars, registry>>
    \/ \E g \in Goroutines : AssignInstance(g) /\ UNCHANGED <<sinkVars, collectVars, passVars, exportVars, envVars, remoteVars, supportVars, registry>>
    \/ \E g \in Goroutines : AssignError(g) /\ UNCHANGED <<sinkVars, collectVars, passVars, exportVars, envVars, remoteVars, supportVars, registry>>
    \/ \E g \in Goroutines : OnceDone(g) /\ UNCHANGED <<sinkVars, collectVars, passVars, exportVars, envVars, remoteVars, supportVars, registry>>
    \/ \E g \in Goroutines : ReturnFixture(g) /\ UNCHANGED <<sinkVars, collectVars, passVars, exportVars, envVars, remoteVars, supportVars, registry>>

\* A test process as it starts.
InitTestProcess ==
    /\ InitSink
    /\ InitCollect
    /\ InitPass
    /\ InitExport
    /\ InitRemote
    /\ InitAux
    /\ InitEnv
    /\ self = "ig-dnstrace"
    /\ runtimeInfo \in {ri \in RuntimeInfos : ri.CollectorList = <<>> /\ ri.StorageAccountName = ""}

SpecFixture == InitTestProcess /\ [][NextFixture]_vars

-----------------------------------------------------------------------------
(* Claims checked under SpecFixture. *)

\* buildInstance runs at most once, and a goroutine that has been through
\* once.Do returns what that run produced.
C37_BuildsOnce ==
    /\ build.runs <= 1
    /\ once = "new" => (build.runs = 0 /\ returned = {})
    /\ \A g \in Goroutines :
         (fsynced[g] /\ fpc[g] = "return") =>
             (fixtureInstance = build.fixture /\ fixtureError = build.err)

\* C37: buildInstance runs at most once, and every GetClusterFixture call
\* returns the fixture and the error that run produced: never the fixture
\* with a nil error when the build failed.
C37_EveryCallReturnsTheBuiltPair ==
    /\ build.runs <= 1
    /\ \A r \in returned : r.fixture = build.fixture /\ r.err = build.err
    /\ build.err # "nil" => [fixture |-> FixtureRef, err |-> "nil"] \notin returned

\* Calls have returned the built fixture with its error from two goroutines,
\* one of which did not run the build.
C37_BothReturned ==
    /\ build.err = "error creating cluster: cause"
    /\ returned = {[fixture |-> FixtureRef, err |-> build.err]}
    /\ \A g \in Goroutines : fcalls[g] = MaxFixtureCalls /\ fpc[g] = "idle"

====
